---- MODULE Spec2Model ----
(***************************************************************************)
(* State-machine model of the truescope-data scrapers: the browser session *)
(* (BaseScraper.start/quit/restart), navigate_with_retry, the append-only  *)
(* JSON stores (append_to_json / append_to_retry) and the process() crawl  *)
(* loop of each of the seven source variants.                              *)
(*                                                                         *)
(* Strings that the code inspects (hrefs, URLs) are sequences of tokens in *)
(* which "/" is always a token of its own, so that startswith("/") and     *)
(* prefixing an origin are computed, not assumed.                          *)
(***************************************************************************)
EXTENDS Integers, Sequences, FiniteSets, TLC

VARIABLES
    variant,        \* which scraper class was constructed
    start_page,     \* self.start_page (Poynter: self.start_index; Rappler: the literal 1)
    pc,             \* position inside process() (or the session API driver)
    curr_page,      \* curr_page (Poynter: curr_index)
    urls,           \* urls of the listing being processed (Poynter: the CSV urls)
    idx,            \* 1-based position of the for-loop in urls
    article_datas,  \* records returned by extract_data_from_url, not yet appended
    sess,           \* self.pw / self.browser / self.page
    output_doc,     \* the document behind self.output_file
    retry_doc,      \* the document behind self.retry_file
    nav,            \* the last navigate_with_retry call: inputs and outcome
    exc,            \* the exception that ended the loop ("none" when none did)
    quit_calls,     \* number of quit() calls made so far
    restarts,       \* pages (indexes) on whose entry restart() was invoked
    page_acc,       \* accounting of the listing page being processed
    site_left,      \* article links the site can still show to this crawl
    calls,          \* session / store driver: number of calls made
    sess_log,       \* the last start / quit / restart call: what it operated on
    last_append,    \* the last append_to_json / append_to_retry call: how it ended
    store_hist,     \* store driver: the entries handed to append so far
    handles,        \* the element handles of the listing: when located, when used
    article_page,   \* extraction driver: the article page the extractors read
    CATEGORY_KEYWORDS, \* self.CATEGORY_KEYWORDS
    applied,        \* the last call of a function checked on its own: inputs, result
    files,          \* two crawl processes: the documents of the outputs directory
    writers         \* two crawl processes: the position of each inside an append

vars == <<variant, start_page, pc, curr_page, urls, idx, article_datas, sess,
          output_doc, retry_doc, nav, exc, quit_calls, restarts, page_acc, site_left,
          calls, sess_log, last_append, store_hist, handles, article_page,
          CATEGORY_KEYWORDS, applied, files, writers>>

----------------------------------------------------------------------------
(* Bounds of the model *)

MaxPages == 2        \* listing pages one crawl may navigate beyond which it is cut off
MaxAnchors == 2      \* anchors a listing page may hold
MaxArticles == 2     \* article links the site shows in all during one crawl
MaxRetriesArg == 3   \* largest max_retries argument tried by the session API driver
MaxCalls == 3        \* session API driver: calls per behaviour
MaxAppends == 3      \* store driver: appends per behaviour
MaxCards == 2        \* extraction driver: claim/verdict cards on an article page
MaxElements == 2     \* claim extraction: labelled elements on an article page
MaxKeywords == 3     \* categorizer: keywords in one list of a configuration
MaxWrites == 2       \* two crawl processes: appends of each process

----------------------------------------------------------------------------
(* Program constants *)

DefaultMaxRetries == 3
FactcheckorgRestartInterval == 2
FullfactRestartInterval == 5
PoynterRestartInterval == 15
RapplerElectionsRestartInterval == 50
RapplerUnifiedRestartInterval == 50
RapplerUnifiedEndPage == 9100
PolitifactDefaultStartPage == 92
RapplerStartPage == 1

Variants == {"factcheckorg", "fullfact", "politifact", "poynter",
             "rappler", "rappler_elections", "rappler_unified"}

\* Variants whose process() evaluates self.restart_interval
ReadsRestartInterval == Variants \ {"rappler"}

\* Variants whose __init__ assigns self.restart_interval
HasRestartInterval(v) == v \in {"factcheckorg", "fullfact", "poynter",
                                "rappler_elections", "rappler_unified"}

RestartInterval(v) ==
    CASE v = "factcheckorg" -> FactcheckorgRestartInterval
      [] v = "fullfact" -> FullfactRestartInterval
      [] v = "poynter" -> PoynterRestartInterval
      [] v = "rappler_elections" -> RapplerElectionsRestartInterval
      [] v = "rappler_unified" -> RapplerUnifiedRestartInterval

\* Constructor arguments tried for start_page / start_index
StartPages(v) ==
    CASE v = "factcheckorg" -> {1, 2}
      [] v = "fullfact" -> {4, 5}
      [] v = "politifact" -> {PolitifactDefaultStartPage}
      [] v = "poynter" -> {14, 15}
      [] v = "rappler" -> {RapplerStartPage}
      [] v = "rappler_elections" -> {49, 50}
      [] v = "rappler_unified" -> {RapplerUnifiedEndPage - 1, RapplerUnifiedEndPage,
                                   RapplerUnifiedEndPage + 1}

----------------------------------------------------------------------------
(* Session: BaseScraper.start / quit / restart *)

\* A handle is "none" (the attribute is None), "live" or "closed".
NoSession == [pw |-> "none", browser |-> "none", page |-> "none"]

\* start(): three assignments in sequence; fail_at = 0 means no step raises,
\* fail_at = k means the k-th step raises and the later ones do not run.
start(s, fail_at) ==
    [pw      |-> IF fail_at = 1 THEN s.pw ELSE "live",
     browser |-> IF fail_at \in {1, 2} THEN s.browser ELSE "live",
     page    |-> IF fail_at \in {1, 2, 3} THEN s.page ELSE "live"]

StartFailures == {0, 1, 2, 3}

\* quit(): every handle that is not None is stopped/closed; none is reset to None.
quit(s) ==
    [pw      |-> IF s.pw # "none" THEN "closed" ELSE s.pw,
     browser |-> IF s.browser # "none" THEN "closed" ELSE s.browser,
     page    |-> IF s.page # "none" THEN "closed" ELSE s.page]

\* A restart that starts a new session without quitting the old one
restart_WithoutQuit(s, fail_at) == start(s, fail_at)

\* restart(): quit(), sleep, start()
restart(s, fail_at) == start(quit(s), fail_at)

\* One primitive operation of a session call and the state of the handle it acts on
SessionOp(op, on) == [op |-> op, on |-> on]

\* The stop / close operations quit() performs, in its order: one per handle that is
\* not None
QuitOps(s) ==
    (IF s.pw # "none" THEN <<SessionOp("pw.stop", s.pw)>> ELSE <<>>)
    \o (IF s.browser # "none" THEN <<SessionOp("browser.close", s.browser)>> ELSE <<>>)
    \o (IF s.page # "none" THEN <<SessionOp("page.close", s.page)>> ELSE <<>>)

\* The operations start() attempts: all three, or those up to the one that raises
StartOps(fail_at) ==
    SubSeq(<<SessionOp("playwright.start", "none"), SessionOp("chromium.launch", "none"),
             SessionOp("browser.new_page", "none")>>,
           1, IF fail_at = 0 THEN 3 ELSE fail_at)

\* A restart that starts the new session before it quits the old one
RestartOps_StartFirst(s, fail_at) ==
    StartOps(fail_at) \o <<SessionOp("sleep", "none")>> \o QuitOps(s)

\* The operations restart() performs: quit(), asyncio.sleep(delay), start()
RestartOps(s, fail_at) ==
    QuitOps(s) \o <<SessionOp("sleep", "none")>> \o StartOps(fail_at)

\* The record of one start / quit / restart call on session s
SessLog(call, s, fail_at) ==
    [call |-> call,
     before |-> s,
     ops |-> CASE call = "start" -> StartOps(fail_at)
               [] call = "quit" -> QuitOps(s)
               [] call = "restart" -> RestartOps(s, fail_at),
     raised |-> call # "quit" /\ fail_at # 0]

----------------------------------------------------------------------------
(* navigate_with_retry *)

NoNav == [kind |-> "none", page |-> "none", max_retries |-> 0, gotos |-> <<>>,
          result |-> "none", attempts |-> 0, sleeps |-> 0]

\* page.goto succeeds only on a live page whose load completes in time; on a
\* None or closed page the call raises, like a timeout does.
goto(page, loads) == page = "live" /\ loads

\* A retry loop that sleeps after every failed attempt, the last one included
SleepsAfter_Always(attempt, max_retries) == TRUE

\* Whether the except branch sleeps after failed attempt number `attempt' (0-based)
SleepsAfter(attempt, max_retries) == attempt < max_retries - 1

RECURSIVE NavLoop_NeverReturnsTrue(_, _, _, _, _)
\* A retry loop whose try block lacks the `return True'
NavLoop_NeverReturnsTrue(page, attempt, max_retries, gotos, sleeps) ==
    IF attempt >= max_retries
    THEN [result |-> "false", attempts |-> attempt, sleeps |-> sleeps]
    ELSE NavLoop_NeverReturnsTrue(page, attempt + 1, max_retries, gotos,
            IF ~(page = "live" /\ gotos[attempt + 1]) /\ attempt < max_retries - 1
            THEN sleeps + 1 ELSE sleeps)

RECURSIVE NavLoop(_, _, _, _, _)
\* The for-loop over range(max_retries), from 0-based attempt `attempt' on.
NavLoop(page, attempt, max_retries, gotos, sleeps) ==
    IF attempt >= max_retries
    THEN [result |-> "false", attempts |-> attempt, sleeps |-> sleeps]
    ELSE IF goto(page, gotos[attempt + 1])
         THEN [result |-> "true", attempts |-> attempt + 1, sleeps |-> sleeps]
         ELSE NavLoop(page, attempt + 1, max_retries, gotos,
                      IF SleepsAfter(attempt, max_retries) THEN sleeps + 1 ELSE sleeps)

\* BaseScraper.navigate_with_retry
BaseScraper_navigate_with_retry(page, max_retries, gotos) ==
    IF page = "none"
    THEN [result |-> "raised", attempts |-> 0, sleeps |-> 0]
    ELSE NavLoop(page, 0, max_retries, gotos, 0)

\* RapplerScraper.navigate_with_retry (override without the page check)
RapplerScraper_navigate_with_retry(page, max_retries, gotos) ==
    NavLoop(page, 0, max_retries, gotos, 0)

\* Method resolution: only RapplerScraper overrides navigate_with_retry.
navigate_with_retry(v, page, max_retries, gotos) ==
    IF v = "rappler"
    THEN RapplerScraper_navigate_with_retry(page, max_retries, gotos)
    ELSE BaseScraper_navigate_with_retry(page, max_retries, gotos)

\* The nav record of a call
NavCall(kind, v, page, max_retries, gotos) ==
    LET r == navigate_with_retry(v, page, max_retries, gotos)
    IN  [kind |-> kind, page |-> page, max_retries |-> max_retries, gotos |-> gotos,
         result |-> r.result, attempts |-> r.attempts, sleeps |-> r.sleeps]

\* Load outcomes of a call in which the first k attempts fail to load
\* (outcomes of attempts after the first success are never observed).
FailFirst(k, max_retries) == [i \in 1..max_retries |-> i > k]

----------------------------------------------------------------------------
(* OutputStore / RetryLog: append_to_json, append_to_retry *)

\* Python's None
None == "None"

\* JSON values as json.dump writes them (indent=2, ensure_ascii=False, utf-8):
\* None becomes null, a str a string holding the same characters, a list an array.
JsonNull == [j |-> "null"]
JsonString(str) == [j |-> "string", s |-> str]
JsonArray(list) == [j |-> "array", a |-> [i \in 1..Len(list) |-> JsonString(list[i])]]

\* Keys of the dicts handed to the stores whose value is a list, and those whose
\* value may be None; every other value is a str.
ListKeys == {"authors"}
NullableKeys == {"publish_date", "source_bias", "claim", "verdict"}

\* json.dump of a list of dicts: the document text, one JSON object per entry
json_dump(existing_data) ==
    [i \in 1..Len(existing_data) |->
        [k \in DOMAIN existing_data[i] |->
            IF k \in ListKeys THEN JsonArray(existing_data[i][k])
            ELSE IF k \in NullableKeys /\ existing_data[i][k] = None THEN JsonNull
            ELSE JsonString(existing_data[i][k])]]

\* A decoder that gives the text "null" for a JSON null
json_load_NullAsText(text) ==
    [i \in 1..Len(text) |->
        [k \in DOMAIN text[i] |->
            CASE text[i][k].j = "null" -> "null"
              [] text[i][k].j = "string" -> text[i][k].s
              [] text[i][k].j = "array" ->
                    [n \in 1..Len(text[i][k].a) |-> text[i][k].a[n].s]]]

\* json.load of a document text that holds a list of objects
json_load(text) ==
    [i \in 1..Len(text) |->
        [k \in DOMAIN text[i] |->
            CASE text[i][k].j = "null" -> None
              [] text[i][k].j = "string" -> text[i][k].s
              [] text[i][k].j = "array" ->
                    [n \in 1..Len(text[i][k].a) |-> text[i][k].a[n].s]]]

\* A document: missing, not decodable as JSON, decodable but not a list, or the
\* text of a list (items: its JSON objects in order)
MissingDoc == [kind |-> "missing", items |-> <<>>]
CorruptDoc == [kind |-> "corrupt", items |-> <<>>]
NonListDoc == [kind |-> "nonlist", items |-> <<>>]
ListDoc(items) == [kind |-> "list", items |-> json_dump(items)]

\* What the file system does to one append
IoOutcomes == {"ok", "makedirs_error", "read_error", "open_error", "dump_error"}

\* Whether the append reaches its "Saved" print, i.e. no step raised
AppendSaves(doc, io) ==
    /\ io \notin {"makedirs_error", "open_error", "dump_error"}
    /\ ~(io = "read_error" /\ doc.kind # "missing")
    /\ doc.kind # "nonlist"

\* An append that gives up on a document it cannot decode instead of repairing it
AppendEntry_NoRepair(doc, entry, io) ==
    IF io # "ok" \/ doc.kind \in {"nonlist", "corrupt"} THEN doc
    ELSE ListDoc(Append(IF doc.kind = "list" THEN json_load(doc.items) ELSE <<>>, entry))

\* An append that takes a document that is not a list for an empty list
AppendEntry_ReplacesNonList(doc, entry, io) ==
    IF io = "makedirs_error" THEN doc
    ELSE IF doc.kind # "missing" /\ io = "read_error" THEN doc
    ELSE IF io = "open_error" THEN doc
    ELSE IF io = "dump_error" THEN CorruptDoc
    ELSE ListDoc(Append(IF doc.kind = "list" THEN json_load(doc.items) ELSE <<>>, entry))

\* The document after the read / append / rewrite of one entry
AppendEntry(doc, entry, io) ==
    IF io = "makedirs_error" THEN doc                      \* os.makedirs raises
    ELSE IF doc.kind # "missing" /\ io = "read_error" THEN doc  \* open(.., "r") / read raises
    ELSE IF doc.kind = "nonlist" THEN doc                  \* existing_data.append raises
    ELSE IF io = "open_error" THEN doc                     \* open(.., "w") raises
    ELSE IF io = "dump_error" THEN CorruptDoc              \* truncated, json.dump raises
    ELSE ListDoc(Append(IF doc.kind = "list" THEN json_load(doc.items) ELSE <<>>, entry))

append_to_json_Prepends(doc, article_data, io) ==
    IF AppendEntry(doc, article_data, io).kind = "list" /\ AppendSaves(doc, io)
    THEN ListDoc(<<article_data>>
                 \o (IF doc.kind = "list" THEN json_load(doc.items) ELSE <<>>))
    ELSE AppendEntry(doc, article_data, io)

\* BaseScraper.append_to_json (RapplerScraper overrides it with the same body)
append_to_json(doc, article_data, io) == AppendEntry(doc, article_data, io)

\* An append_to_retry that writes the new entry without the existing data
append_to_retry_Overwrites(doc, url, reason, io) ==
    AppendEntry(IF doc.kind = "list" THEN [doc EXCEPT !.items = <<>>] ELSE doc,
                [url |-> url, reason |-> reason], io)

append_to_retry(doc, url, reason, io) ==
    AppendEntry(doc, [url |-> url, reason |-> reason], io)

\* The exception raised inside the try block of an append, "none" when no step fails
AppendFailure(doc, io) ==
    IF io = "makedirs_error" THEN "OSError"
    ELSE IF doc.kind # "missing" /\ io = "read_error" THEN "OSError"
    ELSE IF doc.kind = "nonlist" THEN "AttributeError"
    ELSE IF io \in {"open_error", "dump_error"} THEN "OSError"
    ELSE "none"

\* An except clause that names json.JSONDecodeError only
Caught_OnlyJSONDecodeError(e) == e = "JSONDecodeError"

\* `except Exception as e': every exception a failing step raises is an Exception
Caught(e) == e \in {"OSError", "AttributeError", "JSONDecodeError"}

\* How one append call ended: whether it reached its "Saved" print, whether an
\* exception left it, and how many times it opened the file for writing
AppendLog(store, doc, io) ==
    [store |-> store,
     saved |-> AppendSaves(doc, io),
     failure |-> AppendFailure(doc, io),
     raised |-> AppendFailure(doc, io) # "none" /\ ~Caught(AppendFailure(doc, io)),
     writes |-> IF io = "makedirs_error" \/ (doc.kind # "missing" /\ io = "read_error")
                   \/ doc.kind = "nonlist" \/ io = "open_error"
                THEN 0 ELSE 1]

----------------------------------------------------------------------------
(* Listing pages: anchors, hrefs and the extraction of article URLs *)

Origin(v) ==
    CASE v = "factcheckorg" -> <<"https:", "/", "/", "www.factcheck.org">>
      [] v = "fullfact" -> <<"https:", "/", "/", "fullfact.org">>
      [] v = "politifact" -> <<"https:", "/", "/", "www.politifact.com">>
      [] v \in {"rappler", "rappler_elections", "rappler_unified"} ->
            <<"https:", "/", "/", "www.rappler.com">>
      [] v = "poynter" -> <<"https:", "/", "/", "www.poynter.org">>

\* An anchor element: get_attribute("href") gives None when has_href is FALSE.
Anchor(href) == [has_href |-> TRUE, href |-> href]
NoHrefAnchor == [has_href |-> FALSE, href |-> <<>>]

\* Anchors a page may show
AnchorPool(v) ==
    { Anchor(<<"/", "a">>),
      Anchor(Origin(v) \o <<"/", "b">>),
      NoHrefAnchor }
    \cup (IF v = "rappler_unified"
          THEN {Anchor(<<"/", "newsbreak", "/", "fact-check", "/", "c">>)}
          ELSE {})

RECURSIVE SeqsUpTo(_, _)
\* Sequences over S of length at most n
SeqsUpTo(S, n) ==
    IF n = 0 THEN {<<>>}
    ELSE LET shorter == SeqsUpTo(S, n - 1)
         IN  shorter \cup {Append(q, x) : q \in shorter, x \in S}

\* href.startswith("/")
StartsWithSlash(href) == Len(href) > 0 /\ href[1] = "/"

\* `if href:' - neither None nor the empty string
Truthy(a) == a.has_href /\ a.href # <<>>

RECURSIVE extract_urls_AlwaysPrefixes(_, _)
\* An extract_urls that puts the origin in front of every href
extract_urls_AlwaysPrefixes(v, articles) ==
    IF articles = <<>> THEN <<>>
    ELSE LET a == Head(articles)
             rest == extract_urls_AlwaysPrefixes(v, Tail(articles))
         IN  IF Truthy(a) THEN <<Origin(v) \o a.href>> \o rest ELSE rest

RECURSIVE extract_urls(_, _)
\* extract_urls / extract_article_urls of every variant but RapplerUnified
extract_urls(v, articles) ==
    IF articles = <<>> THEN <<>>
    ELSE LET a == Head(articles)
             rest == extract_urls(v, Tail(articles))
         IN  IF Truthy(a)
             THEN <<IF StartsWithSlash(a.href) THEN Origin(v) \o a.href ELSE a.href>> \o rest
             ELSE rest

\* RapplerUnifiedScraper.is_fact_check on a string
is_fact_check(url) == \E i \in 1..Len(url) : url[i] = "fact-check"

RECURSIVE RapplerUnified_extract_article_urls(_)
\* RapplerUnifiedScraper.extract_article_urls: is_fact_check(href) is called before
\* the `if href' test, so an anchor without href raises (AttributeError on None).
RapplerUnified_extract_article_urls(articles) ==
    IF articles = <<>> THEN [raised |-> FALSE, urls |-> <<>>]
    ELSE LET a == Head(articles)
             rest == RapplerUnified_extract_article_urls(Tail(articles))
         IN  IF ~a.has_href THEN [raised |-> TRUE, urls |-> <<>>]
             ELSE IF rest.raised THEN rest
             ELSE IF is_fact_check(a.href) THEN rest
             ELSE IF Truthy(a)
             THEN [raised |-> FALSE,
                   urls |-> <<IF StartsWithSlash(a.href)
                              THEN Origin("rappler_unified") \o a.href
                              ELSE a.href>> \o rest.urls]
             ELSE rest

\* What one listing extraction yields: the urls, whether it raised, and whether
\* process() leaves the loop on it.
ListingResult(v, articles) ==
    IF v = "rappler_unified"
    THEN LET r == RapplerUnified_extract_article_urls(articles)
         IN  [raised |-> r.raised, urls |-> r.urls, brk |-> FALSE]
    ELSE LET u == extract_urls(v, articles)
         IN  [raised |-> FALSE, urls |-> u,
              brk |-> CASE v \in {"factcheckorg", "politifact"} ->
                             Len(articles) = 0 \/ Len(u) = 0
                        [] v \in {"fullfact", "rappler_elections"} -> Len(u) = 0
                        [] v = "rappler" -> FALSE
                        [] OTHER -> FALSE]

\* PoynterFactcheckScraper.read_urls_from_csv: rows with id >= start_index
RECURSIVE read_urls_from_csv(_, _)
read_urls_from_csv(rows, start_index) ==
    IF rows = <<>> THEN <<>>
    ELSE IF Head(rows).id >= start_index
         THEN <<Head(rows).url>> \o read_urls_from_csv(Tail(rows), start_index)
         ELSE read_urls_from_csv(Tail(rows), start_index)

\* CSV files tried: n rows with sequential ids, the first one just below start_index
CsvUrl(i) == Origin("poynter") \o <<"/", IF i % 2 = 0 THEN "a" ELSE "b">>
CsvFiles(start_index) ==
    { [i \in 1..n |-> [id |-> start_index - 2 + i, url |-> CsvUrl(i)]] :
        n \in 0..(MaxArticles + 1) }

----------------------------------------------------------------------------
(* Article pages: extract_data_from_url *)

Source(v) ==
    CASE v = "factcheckorg" -> "factcheckorg"
      [] v = "fullfact" -> "fullfact"
      [] v = "politifact" -> "politifact"
      [] v = "poynter" -> "poynter"
      [] OTHER -> "rappler"

\* An element the page does not have (the locator call times out)
Absent == "absent"

\* RawData(...) as asdict() hands it to append_to_json (source_bias is always None)
RawData(title, content, publish_date, url, source, type, claim, verdict, authors) ==
    [title |-> title, content |-> content, publish_date |-> publish_date, url |-> url,
     source |-> source, type |-> type, source_bias |-> None, claim |-> claim,
     verdict |-> verdict, authors |-> authors]

\* An article page as the extractors see it: the text of the title, claim and
\* verdict elements and what the date element gives (Absent when the element is
\* not there), the joined content paragraphs, the texts of the author elements
\* (empty when there are none, Absent for one that cannot be read), and the
\* claim/verdict cards in page order.
ArticlePage(title, publish_date, content, authors, claim, verdict, cards) ==
    [title |-> title, publish_date |-> publish_date, content |-> content,
     authors |-> authors, claim |-> claim, verdict |-> verdict, cards |-> cards]

\* A claim/verdict card; a side whose element is missing or empty is Absent
Card(claim, verdict) == [claim |-> claim, verdict |-> verdict]

RECURSIVE extract_claims_and_verdicts_Reversed(_)
\* An extraction that returns the complete pairs last card first
extract_claims_and_verdicts_Reversed(cards) ==
    IF cards = <<>> THEN <<>>
    ELSE LET card == Head(cards)
             rest == extract_claims_and_verdicts_Reversed(Tail(cards))
         IN  IF card.claim # Absent /\ card.verdict # Absent
             THEN rest \o <<<<card.claim, card.verdict>>>>
             ELSE rest

RECURSIVE extract_claims_and_verdicts(_)
\* FullfactFactcheckScraper.extract_claims_and_verdicts: `if claim and verdict'
extract_claims_and_verdicts(cards) ==
    IF cards = <<>> THEN <<>>
    ELSE LET card == Head(cards)
             rest == extract_claims_and_verdicts(Tail(cards))
         IN  IF card.claim # Absent /\ card.verdict # Absent
             THEN <<<<card.claim, card.verdict>>>> \o rest
             ELSE rest

\* What the date element of a page gives to the call the variant makes on it:
\* the datetime attribute of <time> (Factcheckorg and the Rappler variants; None
\* when the element has no such attribute) or its inner text (Fullfact,
\* Politifact, Poynter). Absent when the element is not there.
IsoDateTimeAttr == "2024-01-05T10:00:00+08:00"
IsoDateAttr == "2024-01-05"
LocaleDateText == " 5 January 2024 "
ReadsDatetimeAttr(v) ==
    v \in {"factcheckorg", "rappler", "rappler_elections", "rappler_unified"}
DateReads(v) ==
    {IsoDateTimeAttr, IsoDateAttr, LocaleDateText, Absent}
    \cup (IF ReadsDatetimeAttr(v) THEN {None} ELSE {})

\* str.strip() on the strings a date element holds
strip(s) == IF s = " 5 January 2024 " THEN "5 January 2024" ELSE s

\* datetime.fromisoformat: the datetime parsed, a date alone being midnight
\* without offset; not valid (TypeError, ValueError) on None and on a text that
\* is not ISO 8601
NotADatetime == [valid |-> FALSE, date |-> "", time |-> "", tz |-> ""]
fromisoformat(s) ==
    CASE s = "2024-01-05T10:00:00+08:00" ->
            [valid |-> TRUE, date |-> "2024-01-05", time |-> "10:00:00", tz |-> "+08:00"]
      [] s = "2024-01-05" ->
            [valid |-> TRUE, date |-> "2024-01-05", time |-> "00:00:00", tz |-> ""]
      [] OTHER -> NotADatetime

\* datetime.isoformat(): date, "T", time and the offset if there is one
isoformat(d) ==
    CASE d.date = "2024-01-05" /\ d.time = "10:00:00" /\ d.tz = "+08:00" ->
            "2024-01-05T10:00:00+08:00"
      [] d.date = "2024-01-05" /\ d.time = "00:00:00" /\ d.tz = "" ->
            "2024-01-05T00:00:00"
      [] OTHER -> Absent

\* extract_publish_date of each variant, followed in the Rappler variants by the
\* publish_date.isoformat() of extract_data_from_url
extract_publish_date(v, read) ==
    CASE v = "factcheckorg" -> read
      [] v \in {"fullfact", "politifact", "poynter"} -> strip(read)
      [] v \in {"rappler", "rappler_elections", "rappler_unified"} ->
            isoformat(fromisoformat(read))

\* An extract_authors without its try block
extract_authors_NoTry(v, read) ==
    [raised |-> \E i \in 1..Len(read) : read[i] = Absent, authors |-> read]

\* extract_authors: read holds the inner texts of the author elements (Rappler
\* Elections and Unified: of the one div.post-single__authors, split at the commas,
\* which gives one empty name for an empty text), Absent where locating or reading
\* the element raises; whatever is raised is caught and [] returned
extract_authors(v, read) ==
    [raised |-> FALSE,
     authors |-> IF \E i \in 1..Len(read) : read[i] = Absent THEN <<>>
                 ELSE IF v \in {"rappler_elections", "rappler_unified"} /\ read = <<>>
                 THEN <<"">>
                 ELSE read]

\* Extractors that raise on a missing title only
ExtractorRaises_TitleOnly(v, page) == page.title = Absent

\* Whether one of the extractors inside the try block raises on the page: the
\* title and the date are read with inner_text / get_attribute on a single
\* element in every variant, Politifact reads the verdict the same way and
\* Rappler raises when it finds no claim or no verdict; the Rappler variants raise
\* when fromisoformat does; content never raises, and neither does extract_authors.
ExtractorRaises(v, page) ==
    \/ page.title = Absent
    \/ page.publish_date = Absent
    \/ /\ v \in {"rappler", "rappler_elections", "rappler_unified"}
       /\ ~fromisoformat(page.publish_date).valid
    \/ /\ v \notin {"politifact", "rappler"}
       /\ extract_authors(v, page.authors).raised
    \/ v = "politifact" /\ page.verdict = Absent
    \/ v = "rappler" /\ (page.claim = Absent \/ page.verdict = Absent)

\* authors=[] in Politifact and Rappler, the extracted names elsewhere
Authors(v, page) ==
    IF v \in {"politifact", "rappler"} THEN <<>>
    ELSE extract_authors(v, page.authors).authors

\* The awaited extractors inside the try block of extract_data_from_url, in the
\* order the variant's code calls them
ExtractorOrder(v) ==
    CASE v = "rappler" -> <<"title", "publish_date", "claim", "verdict", "content">>
      [] v = "politifact" -> <<"title", "publish_date", "verdict", "content">>
      [] v = "fullfact" ->
            <<"title", "publish_date", "content", "authors", "claims_and_verdicts">>
      [] OTHER -> <<"title", "publish_date", "content", "authors">>

\* Whether one extractor raises on the page: a strict locator read raises on a
\* missing element, extract_publish_date of the Rappler variants also when
\* fromisoformat does; content and the Fullfact card reader never raise
ExtractorFails(extractor, v, page) ==
    CASE extractor = "title" -> page.title = Absent
      [] extractor = "publish_date" ->
            \/ page.publish_date = Absent
            \/ /\ v \in {"rappler", "rappler_elections", "rappler_unified"}
               /\ ~fromisoformat(page.publish_date).valid
      [] extractor = "authors" -> extract_authors(v, page.authors).raised
      [] extractor = "claim" -> page.claim = Absent
      [] extractor = "verdict" -> page.verdict = Absent
      [] OTHER -> FALSE

\* The extractors the try block calls: each in turn until one raises, which
\* transfers control to the except clause
RECURSIVE ExtractorsRunFrom(_, _, _)
ExtractorsRunFrom(order, v, page) ==
    IF order = <<>> THEN <<>>
    ELSE IF ExtractorFails(Head(order), v, page) THEN <<Head(order)>>
    ELSE <<Head(order)>> \o ExtractorsRunFrom(Tail(order), v, page)

ExtractorsRun_RunsAll(v, page) ==
    ExtractorOrder(v)

\* extract_data_from_url's try block on the variant's page
ExtractorsRun(v, page) ==
    ExtractorsRunFrom(ExtractorOrder(v), v, page)

\* The records extract_data_from_url builds once every extractor has returned
BuildRecords(v, url, page) ==
    LET publish_date == extract_publish_date(v, page.publish_date) IN
    CASE v \in {"factcheckorg", "poynter"} ->
            <<RawData(page.title, page.content, publish_date, url, Source(v),
                      "fact-check-no-verdict", page.title, None, Authors(v, page))>>
      [] v = "fullfact" ->
            LET claims_and_verdicts == extract_claims_and_verdicts(page.cards)
            IN  IF Len(claims_and_verdicts) = 0
                THEN <<RawData(page.title, page.content, publish_date, url,
                               Source(v), "fact-check-no-verdict", page.title, None,
                               Authors(v, page))>>
                ELSE [i \in 1..Len(claims_and_verdicts) |->
                        RawData(page.title, page.content, publish_date, url,
                                Source(v), "fact-check", claims_and_verdicts[i][1],
                                claims_and_verdicts[i][2], Authors(v, page))]
      [] v = "politifact" ->
            <<RawData(page.title, page.content, publish_date, url, Source(v),
                      "fact-check", page.title, page.verdict, Authors(v, page))>>
      [] v = "rappler" ->
            <<RawData(page.title, page.content, publish_date, url, Source(v),
                      "fact-check", page.claim, page.verdict, Authors(v, page))>>
      [] v = "rappler_elections" ->
            <<RawData(page.title, page.content, publish_date, url, Source(v),
                      "elections", None, None, Authors(v, page))>>
      [] v = "rappler_unified" ->
            <<RawData(page.title, page.content, publish_date, url, Source(v),
                      "news", None, None, Authors(v, page))>>

\* reason passed to append_to_retry
NavFailReason(v) == IF v = "rappler_unified" THEN "Failed to navigate" ELSE ""
ExtractFailReason(v) == IF v = "rappler_unified" THEN "str(e)" ELSE "traceback"

\* Article pages a crawl meets: a complete page with no card, one card, two cards,
\* or a card without verdict between two complete ones, and a page without title
CrawlCards ==
    { <<>>,
      <<Card("claim1", "verdict1")>>,
      <<Card("claim1", "verdict1"), Card("claim2", "verdict2")>>,
      <<Card("claim1", "verdict1"), Card("claim3", Absent), Card("claim2", "verdict2")>> }
CrawlPages(v) ==
    { ArticlePage("title", IsoDateTimeAttr, "content", <<"author">>, "claim", "verdict",
                    cards) :
        cards \in IF v = "fullfact" THEN CrawlCards ELSE {<<>>} }
    \cup { ArticlePage(Absent, IsoDateTimeAttr, "content", <<"author">>, "claim", "verdict",
                      <<>>) }

\* An extract_data_from_url that drops the result of navigate_with_retry
RoutesToRetry_Never(navigated) == FALSE

\* Whether a failed article navigation is routed to the retry file
RoutesToRetry(navigated) == ~navigated

\* An extract_data_from_url whose except branch keeps what was extracted
extract_data_from_url_KeepsPartial(v, url, navigated, page, rdoc, io) ==
    IF ~navigated
    THEN [retry |-> append_to_retry(rdoc, url, NavFailReason(v), io), datas |-> <<>>,
          logged |-> TRUE]
    ELSE [retry |-> rdoc, datas |-> BuildRecords(v, url, page), logged |-> FALSE]

\* extract_data_from_url: the retry document afterwards, the records returned and
\* whether append_to_retry was called. navigated: navigate_with_retry returned True;
\* page: the article page the extractors then read.
extract_data_from_url(v, url, navigated, page, rdoc, io) ==
    IF RoutesToRetry(navigated)
    THEN [retry |-> append_to_retry(rdoc, url, NavFailReason(v), io), datas |-> <<>>,
          logged |-> TRUE]
    ELSE IF ExtractorRaises(v, page)
    THEN [retry |-> append_to_retry(rdoc, url, ExtractFailReason(v), io), datas |-> <<>>,
          logged |-> TRUE]
    ELSE [retry |-> rdoc, datas |-> BuildRecords(v, url, page), logged |-> FALSE]

----------------------------------------------------------------------------
(* process(): the crawl loop *)

\* Accounting of one listing page (Poynter: of the CSV list): its number, the number
\* of urls it yielded, the length of the retry list when it was entered, the
\* positions whose extraction failed, whose retry entry was written and for which
\* an output record was written, and whether the for-loop has finished it.
NoAcc == [page |-> 0, n |-> 0, retry0 |-> 0, failed |-> {}, retried |-> {},
          saved |-> {}, done |-> FALSE]

\* The entries a document holds when read back (a missing or undecodable one: none)
Items(doc) == IF doc.kind = "list" THEN json_load(doc.items) ELSE <<>>

\* No session call, no append, no store history, no handles, no article page yet
NoSessLog == [call |-> "none", before |-> NoSession, ops |-> <<>>, raised |-> FALSE]
NoAppend == [store |-> "none", saved |-> FALSE, failure |-> "none", raised |-> FALSE,
             writes |-> 0]
NoHist == [store \in {"output", "retry"} |->
             [first |-> "missing", entries |-> <<>>, clean |-> TRUE]]
NoHandles == [located |-> 0, used |-> 0]
NoCall == [op |-> "none"]
NoFiles == <<>>
NoWriters == <<>>
\* self.CATEGORY_KEYWORDS: None, or the CategoryKeywords of the four lists
NoCategoryKeywords ==
    [set |-> FALSE, politics |-> <<>>, social_issues |-> <<>>, news |-> <<>>,
     government_entities |-> <<>>]
CategoryKeywords(politics, social_issues, news, government_entities) ==
    [set |-> TRUE, politics |-> politics, social_issues |-> social_issues,
     news |-> news, government_entities |-> government_entities]

NoArticlePage == [title |-> "", publish_date |-> "", content |-> "", authors |-> <<>>,
                  cards |-> <<>>]

\* Documents a crawl may find on disk when it starts
InitDocs == {MissingDoc}

Init ==
    /\ variant \in Variants
    /\ start_page \in StartPages(variant)
    /\ pc = "init"
    /\ curr_page = 0
    /\ urls = <<>>
    /\ idx = 0
    /\ article_datas = <<>>
    /\ sess = NoSession
    /\ output_doc \in InitDocs
    /\ retry_doc \in InitDocs
    /\ nav = NoNav
    /\ exc = "none"
    /\ quit_calls = 0
    /\ restarts = {}
    /\ page_acc = NoAcc
    /\ site_left = MaxArticles
    /\ calls = 0
    /\ sess_log = NoSessLog
    /\ last_append = NoAppend
    /\ store_hist = NoHist
    /\ handles = NoHandles
    /\ article_page = NoArticlePage
    /\ CATEGORY_KEYWORDS = NoCategoryKeywords
    /\ applied = NoCall
    /\ files = NoFiles
    /\ writers = NoWriters

\* Number of the browser session the crawl is in: the one start() opened, plus one
\* for every restart made since
SessionGen == Cardinality(restarts) + 1

\* A crawl that locates its element handles once and keeps using them
LocatedHandles_Cached(held, gen) ==
    IF held.located = 0 THEN [located |-> gen, used |-> gen]
    ELSE [held EXCEPT !.used = gen]

\* The element handles a step reads: the locator call comes right before the reads,
\* so they belong to the session the step runs in (held: the handles of before)
LocatedHandles(held, gen) == [located |-> gen, used |-> gen]

\* A restart condition without the start-page exemption
ShouldRestart_NoStartCheck(page, interval, first) == page % interval = 0

\* The restart condition at the head of the loop
ShouldRestart(page, interval, first) == page % interval = 0 /\ page # first

AdvanceCursor_Stays(cursor) == cursor

\* curr_page += 1 at the end of the while body (Poynter: curr_index += 1 on both
\* branches of the for body)
AdvanceCursor(cursor) == cursor + 1

NextUrl_Same(position) == position

\* `for url in urls': the position of the url the next iteration takes, whether
\* the body ended at `continue' or at its last statement
NextUrl(position) == position + 1

\* Where process() goes once a URL has been dealt with
AfterUrl(v) == IF v = "poynter" THEN "loop" ELSE "for_url"

\* await self.start(), before the try block
ProcessStart ==
    /\ pc = "init"
    /\ \E f \in StartFailures :
        /\ sess' = start(sess, f)
        /\ sess_log' = SessLog("start", sess, f)
        /\ IF f # 0
           THEN /\ pc' = "raised"
                /\ exc' = "SessionError"
                /\ UNCHANGED curr_page
           ELSE IF variant = "poynter"
           THEN /\ pc' = "read_csv"
                /\ UNCHANGED <<exc, curr_page>>
           ELSE /\ pc' = "loop"
                /\ curr_page' = start_page
                /\ UNCHANGED exc
    /\ UNCHANGED <<variant, start_page, urls, idx, article_datas, output_doc, retry_doc,
                   nav, quit_calls, restarts, page_acc, calls, site_left>>
    /\ UNCHANGED <<last_append, store_hist, handles, article_page>>
    /\ UNCHANGED <<CATEGORY_KEYWORDS, applied>>
    /\ UNCHANGED <<files, writers>>

\* Poynter: urls = self.read_urls_from_csv(); `if not urls: return'
ReadCsv ==
    /\ pc = "read_csv"
    /\ \E rows \in CsvFiles(start_page), readable \in BOOLEAN :
        LET u == IF readable THEN read_urls_from_csv(rows, start_page) ELSE <<>>
        IN  /\ urls' = u
            /\ IF u = <<>>
               THEN /\ pc' = "returned"
                    /\ UNCHANGED <<curr_page, idx, page_acc>>
               ELSE /\ pc' = "loop"
                    /\ curr_page' = start_page
                    /\ idx' = 1
                    /\ page_acc' = [NoAcc EXCEPT !.page = start_page, !.n = Len(u),
                                                 !.retry0 = Len(Items(retry_doc))]
    /\ UNCHANGED <<variant, start_page, article_datas, sess, output_doc, retry_doc,
                   nav, exc, quit_calls, restarts, calls, site_left>>
    /\ UNCHANGED <<sess_log, last_append, store_hist, handles, article_page>>
    /\ UNCHANGED <<CATEGORY_KEYWORDS, applied>>
    /\ UNCHANGED <<files, writers>>

\* Head of the while / for loop: end test and restart test
LoopHead ==
    /\ pc = "loop"
    /\ IF variant = "rappler_unified" /\ curr_page > RapplerUnifiedEndPage
       THEN pc' = "finally" /\ UNCHANGED exc
       ELSE IF variant = "poynter" /\ idx > Len(urls)
       THEN pc' = "finally" /\ UNCHANGED exc
       ELSE IF variant \in ReadsRestartInterval /\ ~HasRestartInterval(variant)
       THEN pc' = "finally" /\ exc' = "AttributeError: restart_interval"
       ELSE IF variant \in ReadsRestartInterval
               /\ ShouldRestart(curr_page, RestartInterval(variant), start_page)
       THEN pc' = "restart" /\ UNCHANGED exc
       ELSE /\ pc' = IF variant = "poynter" THEN "extract_data" ELSE "nav_listing"
            /\ UNCHANGED exc
    /\ UNCHANGED <<variant, start_page, curr_page, urls, idx, article_datas, sess,
                   output_doc, retry_doc, quit_calls, restarts, page_acc, calls, site_left>>
    /\ nav' = NoNav
    /\ UNCHANGED <<sess_log, store_hist, handles>>
    /\ last_append' = NoAppend
    /\ article_page' = NoArticlePage
    /\ UNCHANGED <<CATEGORY_KEYWORDS, applied>>
    /\ UNCHANGED <<files, writers>>

\* await self.restart() inside the loop
Restart ==
    /\ pc = "restart"
    /\ restarts' = restarts \cup {curr_page}
    /\ quit_calls' = quit_calls + 1
    /\ \E f \in StartFailures :
        /\ sess' = restart(sess, f)
        /\ sess_log' = SessLog("restart", sess, f)
        /\ IF f # 0
           THEN pc' = "finally" /\ exc' = "SessionError"
           ELSE /\ pc' = IF variant = "poynter" THEN "extract_data" ELSE "nav_listing"
                /\ UNCHANGED exc
    /\ UNCHANGED <<variant, start_page, curr_page, urls, idx, article_datas,
                   output_doc, retry_doc, nav, page_acc, calls, site_left>>
    /\ UNCHANGED <<last_append, store_hist, handles, article_page>>
    /\ UNCHANGED <<CATEGORY_KEYWORDS, applied>>
    /\ UNCHANGED <<files, writers>>

\* await self.navigate_with_retry(<listing url of curr_page>); the result is dropped
NavigateListing ==
    /\ pc = "nav_listing"
    /\ curr_page < start_page + MaxPages
    /\ \E k \in 0..DefaultMaxRetries :
        /\ nav' = NavCall("listing", variant, sess.page, DefaultMaxRetries,
                          FailFirst(k, DefaultMaxRetries))
        /\ IF nav'.result = "raised"
           THEN pc' = "finally" /\ exc' = "Exception: no page"
           ELSE pc' = "extract_listing" /\ UNCHANGED exc
    /\ UNCHANGED <<variant, start_page, curr_page, urls, idx, article_datas, sess,
                   output_doc, retry_doc, quit_calls, restarts, page_acc, calls, site_left>>
    /\ UNCHANGED <<sess_log, last_append, store_hist, handles, article_page>>
    /\ UNCHANGED <<CATEGORY_KEYWORDS, applied>>
    /\ UNCHANGED <<files, writers>>

\* Locating the anchors of whatever document the page holds, and the break tests
ExtractListing ==
    /\ pc = "extract_listing"
    /\ \/ \E articles \in SeqsUpTo(AnchorPool(variant), MaxAnchors) :
            LET r == ListingResult(variant, articles)
            IN  /\ Len(r.urls) <= site_left
                /\ site_left' = site_left - Len(r.urls)
                /\ handles' = LocatedHandles(handles, SessionGen)
                /\ IF r.raised
                   THEN /\ pc' = "finally"
                        /\ exc' = "AttributeError: href"
                        /\ UNCHANGED <<urls, idx, page_acc>>
                   ELSE IF r.brk
                   THEN /\ pc' = "finally"
                        /\ urls' = r.urls
                        /\ UNCHANGED <<exc, idx, page_acc>>
                   ELSE /\ pc' = "for_url"
                        /\ urls' = r.urls
                        /\ idx' = 1
                        /\ page_acc' = [NoAcc EXCEPT !.page = curr_page,
                                                     !.n = Len(r.urls),
                                                     !.retry0 = Len(Items(retry_doc))]
                        /\ UNCHANGED exc
       \/ /\ pc' = "finally"          \* the locator call itself raises
          /\ exc' = "LocatorError"
          /\ UNCHANGED <<urls, idx, page_acc, site_left, handles>>
    /\ UNCHANGED <<variant, start_page, curr_page, article_datas, sess, output_doc,
                   retry_doc, nav, quit_calls, restarts, calls>>
    /\ UNCHANGED <<sess_log, last_append, store_hist, article_page>>
    /\ UNCHANGED <<CATEGORY_KEYWORDS, applied>>
    /\ UNCHANGED <<files, writers>>

\* `for url in urls': next url, or the end of the page (curr_page += 1)
ForUrl ==
    /\ pc = "for_url"
    /\ IF idx <= Len(urls)
       THEN pc' = "extract_data" /\ UNCHANGED <<curr_page, page_acc>>
       ELSE /\ pc' = "loop"
            /\ curr_page' = AdvanceCursor(curr_page)
            /\ page_acc' = [page_acc EXCEPT !.done = TRUE]
    /\ UNCHANGED <<variant, start_page, urls, idx, article_datas, sess, output_doc,
                   retry_doc, exc, quit_calls, restarts, calls, site_left>>
    /\ nav' = NoNav
    /\ UNCHANGED <<sess_log, store_hist, handles>>
    /\ last_append' = NoAppend
    /\ article_page' = NoArticlePage
    /\ UNCHANGED <<CATEGORY_KEYWORDS, applied>>
    /\ UNCHANGED <<files, writers>>

\* article_data = await self.extract_data_from_url(url)
ExtractDataFromUrl ==
    /\ pc = "extract_data"
    /\ \E k \in 0..DefaultMaxRetries, page \in CrawlPages(variant), io \in IoOutcomes :
        LET call == NavCall("article", variant, sess.page, DefaultMaxRetries,
                            FailFirst(k, DefaultMaxRetries))
            r == extract_data_from_url(variant, urls[idx], call.result = "true",
                                       page, retry_doc, io)
        IN  /\ nav' = call
            /\ article_page' = IF call.result = "true" THEN page ELSE NoArticlePage
            /\ handles' = IF call.result = "true"
                          THEN LocatedHandles(handles, SessionGen) ELSE handles
            /\ last_append' = IF call.result # "raised" /\ r.logged
                              THEN AppendLog("retry", retry_doc, io) ELSE NoAppend
            /\ IF call.result = "raised"
               THEN /\ pc' = "finally"
                    /\ exc' = "Exception: no page"
                    /\ UNCHANGED <<retry_doc, article_datas, idx, curr_page, page_acc>>
               ELSE /\ retry_doc' = r.retry
                    /\ article_datas' = r.datas
                    /\ UNCHANGED exc
                    /\ IF r.datas = <<>>
                       THEN /\ pc' = AfterUrl(variant)
                            /\ idx' = NextUrl(idx)
                            /\ curr_page' = IF variant = "poynter"
                                            THEN AdvanceCursor(curr_page)
                                            ELSE curr_page
                            /\ page_acc' =
                                 [page_acc EXCEPT
                                    !.failed = @ \cup {idx},
                                    !.retried = IF AppendSaves(retry_doc, io)
                                                THEN @ \cup {idx} ELSE @]
                       ELSE /\ pc' = "save"
                            /\ UNCHANGED <<idx, curr_page, page_acc>>
    /\ UNCHANGED <<variant, start_page, urls, sess, output_doc, quit_calls, restarts, calls, site_left>>
    /\ UNCHANGED <<sess_log, store_hist>>
    /\ UNCHANGED <<CATEGORY_KEYWORDS, applied>>
    /\ UNCHANGED <<files, writers>>

\* await self.append_to_json(asdict(article_data)), one record per step
SaveArticle ==
    /\ pc = "save"
    /\ \E io \in IoOutcomes :
        /\ output_doc' = append_to_json(output_doc, Head(article_datas), io)
        /\ last_append' = AppendLog("output", output_doc, io)
        /\ page_acc' = [page_acc EXCEPT !.saved = IF AppendSaves(output_doc, io)
                                                  THEN @ \cup {idx} ELSE @]
    /\ article_datas' = Tail(article_datas)
    /\ IF Tail(article_datas) = <<>>
       THEN /\ pc' = AfterUrl(variant)
            /\ idx' = NextUrl(idx)
            /\ curr_page' = IF variant = "poynter" THEN AdvanceCursor(curr_page)
                            ELSE curr_page
       ELSE UNCHANGED <<pc, idx, curr_page>>
    /\ UNCHANGED <<variant, start_page, urls, sess, retry_doc, exc, quit_calls,
                   restarts, calls, site_left>>
    /\ nav' = NoNav
    /\ article_page' = NoArticlePage
    /\ UNCHANGED <<sess_log, store_hist, handles>>
    /\ UNCHANGED <<CATEGORY_KEYWORDS, applied>>
    /\ UNCHANGED <<files, writers>>

\* except: print; finally: await self.quit()
Finally ==
    /\ pc = "finally"
    /\ sess' = quit(sess)
    /\ sess_log' = SessLog("quit", sess, 0)
    /\ quit_calls' = quit_calls + 1
    /\ pc' = "done"
    /\ UNCHANGED <<variant, start_page, curr_page, urls, idx, article_datas, output_doc,
                   retry_doc, nav, exc, restarts, page_acc, calls, site_left>>
    /\ UNCHANGED <<last_append, store_hist, handles, article_page>>
    /\ UNCHANGED <<CATEGORY_KEYWORDS, applied>>
    /\ UNCHANGED <<files, writers>>

Next ==
    \/ ProcessStart
    \/ ReadCsv
    \/ LoopHead
    \/ Restart
    \/ NavigateListing
    \/ ExtractListing
    \/ ForUrl
    \/ ExtractDataFromUrl
    \/ SaveArticle
    \/ Finally

Spec == Init /\ [][Next]_vars

----------------------------------------------------------------------------
(* A caller driving the session methods directly: start, quit, restart and *)
(* navigate_with_retry in any order, on a freshly constructed scraper.     *)

ApiInit ==
    /\ variant \in Variants
    /\ start_page \in StartPages(variant)
    /\ pc = "api"
    /\ curr_page = 0
    /\ urls = <<>>
    /\ idx = 0
    /\ article_datas = <<>>
    /\ sess = NoSession
    /\ output_doc = MissingDoc
    /\ retry_doc = MissingDoc
    /\ nav = NoNav
    /\ exc = "none"
    /\ quit_calls = 0
    /\ restarts = {}
    /\ page_acc = NoAcc
    /\ site_left = 0
    /\ calls = 0
    /\ sess_log = NoSessLog
    /\ last_append = NoAppend
    /\ store_hist = NoHist
    /\ handles = NoHandles
    /\ article_page = NoArticlePage
    /\ CATEGORY_KEYWORDS = NoCategoryKeywords
    /\ applied = NoCall
    /\ files = NoFiles
    /\ writers = NoWriters

ApiStart ==
    /\ pc = "api" /\ calls < MaxCalls
    /\ \E f \in StartFailures :
        /\ sess' = start(sess, f)
        /\ sess_log' = SessLog("start", sess, f)
    /\ calls' = calls + 1
    /\ UNCHANGED <<variant, start_page, pc, curr_page, urls, idx, article_datas,
                   output_doc, retry_doc, nav, exc, quit_calls, restarts, page_acc,
                   site_left>>
    /\ UNCHANGED <<last_append, store_hist, handles, article_page>>
    /\ UNCHANGED <<CATEGORY_KEYWORDS, applied>>
    /\ UNCHANGED <<files, writers>>

ApiQuit ==
    /\ pc = "api" /\ calls < MaxCalls
    /\ sess' = quit(sess)
    /\ sess_log' = SessLog("quit", sess, 0)
    /\ quit_calls' = quit_calls + 1
    /\ calls' = calls + 1
    /\ UNCHANGED <<variant, start_page, pc, curr_page, urls, idx, article_datas,
                   output_doc, retry_doc, nav, exc, restarts, page_acc, site_left>>
    /\ UNCHANGED <<last_append, store_hist, handles, article_page>>
    /\ UNCHANGED <<CATEGORY_KEYWORDS, applied>>
    /\ UNCHANGED <<files, writers>>

ApiRestart ==
    /\ pc = "api" /\ calls < MaxCalls
    /\ \E f \in StartFailures :
        /\ sess' = restart(sess, f)
        /\ sess_log' = SessLog("restart", sess, f)
    /\ quit_calls' = quit_calls + 1
    /\ calls' = calls + 1
    /\ UNCHANGED <<variant, start_page, pc, curr_page, urls, idx, article_datas,
                   output_doc, retry_doc, nav, exc, restarts, page_acc, site_left>>
    /\ UNCHANGED <<last_append, store_hist, handles, article_page>>
    /\ UNCHANGED <<CATEGORY_KEYWORDS, applied>>
    /\ UNCHANGED <<files, writers>>

ApiNavigate ==
    /\ pc = "api" /\ calls < MaxCalls
    /\ \E m \in 1..MaxRetriesArg :
         \E g \in [1..m -> BOOLEAN] :
            nav' = NavCall("api", variant, sess.page, m, g)
    /\ calls' = calls + 1
    /\ UNCHANGED <<variant, start_page, pc, curr_page, urls, idx, article_datas, sess,
                   output_doc, retry_doc, exc, quit_calls, restarts, page_acc, site_left>>
    /\ UNCHANGED <<sess_log, last_append, store_hist, handles, article_page>>
    /\ UNCHANGED <<CATEGORY_KEYWORDS, applied>>
    /\ UNCHANGED <<files, writers>>

ApiNext ==
    \/ ApiStart
    \/ ApiQuit
    \/ ApiRestart
    \/ ApiNavigate

ApiSpec == ApiInit /\ [][ApiNext]_vars

----------------------------------------------------------------------------
(* A single writer appending to the two stores, whatever they hold at first *)
(* and whatever the file system does to each append.                       *)

\* Documents the stores may hold before the first append
StoreDocs == {MissingDoc, ListDoc(<<>>), CorruptDoc, NonListDoc}

\* Dicts handed to append_to_json: a record with None fields, non-ASCII text and
\* two authors, and one with every field a plain string and no author
StoreRecords ==
    { RawData("título", "content", None, Origin("factcheckorg") \o <<"/", "a">>,
              "factcheckorg", "fact-check-no-verdict", "título", None, <<"A", "B">>),
      RawData("title", "", "date", Origin("rappler") \o <<"/", "b">>,
              "rappler", "fact-check", "claim", "verdict", <<>>) }

\* Arguments handed to append_to_retry
StoreRetries ==
    { [url |-> Origin("fullfact") \o <<"/", "a">>, reason |-> ""],
      [url |-> Origin("fullfact") \o <<"/", "b">>, reason |-> "traceback"] }

\* The history after one more append to `store'
Appended(hist, store, entry, doc, io) ==
    [hist EXCEPT ![store].entries = Append(@, entry),
                 ![store].clean = @ /\ AppendFailure(doc, io) = "none"]

StoreInit ==
    /\ variant \in {"factcheckorg", "rappler"}
    /\ start_page = RapplerStartPage
    /\ pc = "store"
    /\ curr_page = 0
    /\ urls = <<>>
    /\ idx = 0
    /\ article_datas = <<>>
    /\ sess = NoSession
    /\ output_doc \in StoreDocs
    /\ retry_doc \in StoreDocs
    /\ nav = NoNav
    /\ exc = "none"
    /\ quit_calls = 0
    /\ restarts = {}
    /\ page_acc = NoAcc
    /\ site_left = 0
    /\ calls = 0
    /\ sess_log = NoSessLog
    /\ last_append = NoAppend
    /\ store_hist = [NoHist EXCEPT !["output"].first = output_doc.kind,
                                   !["retry"].first = retry_doc.kind]
    /\ handles = NoHandles
    /\ article_page = NoArticlePage
    /\ CATEGORY_KEYWORDS = NoCategoryKeywords
    /\ applied = NoCall
    /\ files = NoFiles
    /\ writers = NoWriters

\* await self.append_to_json(article_data)
StoreAppendToJson ==
    /\ pc = "store" /\ calls < MaxAppends
    /\ \E article_data \in StoreRecords, io \in IoOutcomes :
        /\ output_doc' = append_to_json(output_doc, article_data, io)
        /\ last_append' = AppendLog("output", output_doc, io)
        /\ store_hist' = Appended(store_hist, "output", article_data, output_doc, io)
    /\ calls' = calls + 1
    /\ UNCHANGED <<variant, start_page, pc, curr_page, urls, idx, article_datas, sess,
                   retry_doc, nav, exc, quit_calls, restarts, page_acc, site_left,
                   sess_log, handles, article_page>>
    /\ UNCHANGED <<CATEGORY_KEYWORDS, applied>>
    /\ UNCHANGED <<files, writers>>

\* await self.append_to_retry(url, reason)
StoreAppendToRetry ==
    /\ pc = "store" /\ calls < MaxAppends
    /\ \E new_retry \in StoreRetries, io \in IoOutcomes :
        /\ retry_doc' = append_to_retry(retry_doc, new_retry.url, new_retry.reason, io)
        /\ last_append' = AppendLog("retry", retry_doc, io)
        /\ store_hist' = Appended(store_hist, "retry", new_retry, retry_doc, io)
    /\ calls' = calls + 1
    /\ UNCHANGED <<variant, start_page, pc, curr_page, urls, idx, article_datas, sess,
                   output_doc, nav, exc, quit_calls, restarts, page_acc, site_left,
                   sess_log, handles, article_page>>
    /\ UNCHANGED <<CATEGORY_KEYWORDS, applied>>
    /\ UNCHANGED <<files, writers>>

StoreNext ==
    \/ StoreAppendToJson
    \/ StoreAppendToRetry

StoreSpec == StoreInit /\ [][StoreNext]_vars

----------------------------------------------------------------------------
(* extract_data_from_url applied to one article page of any shape, followed *)
(* by the appends of the records it returns.                               *)

\* Cards an article page may show: two complete ones, one without verdict, one
\* without claim
CardPool ==
    { Card("claim1", "verdict1"), Card("claim2", "verdict2"),
      Card("claim3", Absent), Card(Absent, "verdict3") }

\* Article pages tried
ArticlePages(v) ==
    { ArticlePage(title, publish_date, content, authors, claim, verdict, cards) :
        title \in {"title", Absent}, publish_date \in DateReads(v),
        content \in {"content", ""},
        authors \in {<<>>, <<"A", "B">>, <<"A", Absent>>},
        claim \in {"claim", Absent}, verdict \in {"verdict", Absent},
        cards \in SeqsUpTo(CardPool, MaxCards) }

ExtractInit ==
    /\ variant \in Variants
    /\ start_page \in {1}
    /\ pc = "page"
    /\ curr_page = 0
    /\ urls = <<Origin(variant) \o <<"/", "a">>>>
    /\ idx = 1
    /\ article_datas = <<>>
    /\ sess = start(NoSession, 0)
    /\ output_doc = MissingDoc
    /\ retry_doc = MissingDoc
    /\ nav = NoNav
    /\ exc = "none"
    /\ quit_calls = 0
    /\ restarts = {}
    /\ page_acc = NoAcc
    /\ site_left = 0
    /\ calls = 0
    /\ sess_log = NoSessLog
    /\ last_append = NoAppend
    /\ store_hist = NoHist
    /\ handles = NoHandles
    /\ article_page \in ArticlePages(variant)
    /\ CATEGORY_KEYWORDS = NoCategoryKeywords
    /\ applied = NoCall
    /\ files = NoFiles
    /\ writers = NoWriters

\* article_data = await self.extract_data_from_url(url) on the page
ExtractApply ==
    /\ pc = "page"
    /\ \E k \in {0, DefaultMaxRetries} :
        LET call == NavCall("article", variant, sess.page, DefaultMaxRetries,
                            FailFirst(k, DefaultMaxRetries))
            r == extract_data_from_url(variant, urls[idx], call.result = "true",
                                       article_page, retry_doc, "ok")
        IN  /\ nav' = call
            /\ retry_doc' = r.retry
            /\ article_datas' = r.datas
            /\ last_append' = IF r.logged THEN AppendLog("retry", retry_doc, "ok")
                              ELSE NoAppend
            /\ applied' = [op |-> "extract_data_from_url",
                           navigated |-> call.result = "true",
                           ran |-> IF call.result = "true"
                                   THEN ExtractorsRun(variant, article_page)
                                   ELSE <<>>]
    /\ pc' = "extracted"
    /\ UNCHANGED <<variant, start_page, curr_page, urls, idx, sess, output_doc, exc,
                   quit_calls, restarts, page_acc, site_left, calls, sess_log,
                   store_hist, handles, article_page>>
    /\ UNCHANGED CATEGORY_KEYWORDS
    /\ UNCHANGED <<files, writers>>

\* await self.append_to_json(asdict(article_data)) for the records returned
ExtractSave ==
    /\ pc \in {"extracted", "saving"}
    /\ article_datas # <<>>
    /\ output_doc' = append_to_json(output_doc, Head(article_datas), "ok")
    /\ last_append' = AppendLog("output", output_doc, "ok")
    /\ article_datas' = Tail(article_datas)
    /\ pc' = "saving"
    /\ UNCHANGED <<variant, start_page, curr_page, urls, idx, sess, retry_doc, nav, exc,
                   quit_calls, restarts, page_acc, site_left, calls, sess_log,
                   store_hist, handles, article_page>>
    /\ UNCHANGED <<CATEGORY_KEYWORDS, applied>>
    /\ UNCHANGED <<files, writers>>

ExtractNext ==
    \/ ExtractApply
    \/ ExtractSave

ExtractSpec == ExtractInit /\ [][ExtractNext]_vars

----------------------------------------------------------------------------
(* The urls of one listing (Poynter: of the CSV file made from the saved    *)
(* listing), each then handed to extract_data_from_url and its record saved *)

\* Anchors a listing may show: the ones of a crawl, and hrefs relative to the
\* path of the listing and relative to the protocol
ListingAnchors(v) ==
    AnchorPool(v)
    \cup { Anchor(<<"c", "/", "d">>),
           Anchor(<<"/", "/", "cdn.example.org", "/", "e">>) }

RECURSIVE extract_urls_from_html(_)
\* PoynterHtmlProcessor.extract_urls_from_html: the href of every link that has one
extract_urls_from_html(articles) ==
    IF articles = <<>> THEN <<>>
    ELSE IF Truthy(Head(articles))
         THEN <<Head(articles).href>> \o extract_urls_from_html(Tail(articles))
         ELSE extract_urls_from_html(Tail(articles))

\* PoynterHtmlProcessor.save_urls_to_csv: rows with sequential ids from 1
save_urls_to_csv(found) == [i \in 1..Len(found) |-> [id |-> i, url |-> found[i]]]

\* The page every url of the listing leads to
ListedPage ==
    ArticlePage("title", IsoDateTimeAttr, "content", <<"author">>, "claim", "verdict",
                <<>>)

UrlsInit ==
    /\ variant \in Variants
    /\ start_page \in {1}
    /\ pc = "listing"
    /\ curr_page = 1
    /\ urls = <<>>
    /\ idx = 1
    /\ article_datas = <<>>
    /\ sess = start(NoSession, 0)
    /\ output_doc = MissingDoc
    /\ retry_doc = MissingDoc
    /\ nav = NoNav
    /\ exc = "none"
    /\ quit_calls = 0
    /\ restarts = {}
    /\ page_acc = NoAcc
    /\ site_left = 0
    /\ calls = 0
    /\ sess_log = NoSessLog
    /\ last_append = NoAppend
    /\ store_hist = NoHist
    /\ handles = NoHandles
    /\ article_page = NoArticlePage
    /\ CATEGORY_KEYWORDS = NoCategoryKeywords
    /\ applied = NoCall
    /\ files = NoFiles
    /\ writers = NoWriters

\* urls = await self.extract_urls(articles) (Poynter: urls = self.read_urls_from_csv())
UrlsExtract ==
    /\ pc = "listing"
    /\ \E articles \in SeqsUpTo(ListingAnchors(variant), MaxAnchors) :
        IF variant = "poynter"
        THEN LET found == read_urls_from_csv(
                              save_urls_to_csv(extract_urls_from_html(articles)), 1)
             IN  /\ urls' = found
                 /\ applied' = [op |-> "read_urls_from_csv", articles |-> articles,
                                urls |-> found]
                 /\ pc' = "for_url"
                 /\ UNCHANGED exc
        ELSE LET r == ListingResult(variant, articles)
             IN  /\ urls' = r.urls
                 /\ applied' = [op |-> "extract_urls", articles |-> articles,
                                urls |-> r.urls]
                 /\ pc' = IF r.raised THEN "done" ELSE "for_url"
                 /\ exc' = IF r.raised THEN "AttributeError" ELSE exc
    /\ idx' = 1
    /\ UNCHANGED <<variant, start_page, curr_page, article_datas, sess, output_doc,
                   retry_doc, nav, quit_calls, restarts, page_acc, site_left, calls,
                   sess_log, last_append, store_hist, handles, article_page>>
    /\ UNCHANGED CATEGORY_KEYWORDS
    /\ UNCHANGED <<files, writers>>

\* article_data = await self.extract_data_from_url(url) for the next url
UrlsVisit ==
    /\ pc = "for_url"
    /\ idx <= Len(urls)
    /\ \E k \in {0, DefaultMaxRetries} :
        LET call == NavCall("article", variant, sess.page, DefaultMaxRetries,
                            FailFirst(k, DefaultMaxRetries))
            r == extract_data_from_url(variant, urls[idx], call.result = "true",
                                       ListedPage, retry_doc, "ok")
        IN  /\ nav' = call
            /\ retry_doc' = r.retry
            /\ article_datas' = r.datas
            /\ last_append' = IF r.logged THEN AppendLog("retry", retry_doc, "ok")
                              ELSE NoAppend
            /\ pc' = IF r.datas = <<>> THEN "for_url" ELSE "save"
            /\ idx' = IF r.datas = <<>> THEN idx + 1 ELSE idx
    /\ UNCHANGED <<variant, start_page, curr_page, urls, sess, output_doc, exc,
                   quit_calls, restarts, page_acc, site_left, calls, sess_log,
                   store_hist, handles, article_page>>
    /\ UNCHANGED <<CATEGORY_KEYWORDS, applied>>
    /\ UNCHANGED <<files, writers>>

\* await self.append_to_json(asdict(article_data))
UrlsSave ==
    /\ pc = "save"
    /\ output_doc' = append_to_json(output_doc, Head(article_datas), "ok")
    /\ last_append' = AppendLog("output", output_doc, "ok")
    /\ article_datas' = Tail(article_datas)
    /\ pc' = IF Tail(article_datas) = <<>> THEN "for_url" ELSE "save"
    /\ idx' = IF Tail(article_datas) = <<>> THEN idx + 1 ELSE idx
    /\ UNCHANGED <<variant, start_page, curr_page, urls, sess, retry_doc, nav, exc,
                   quit_calls, restarts, page_acc, site_left, calls, sess_log,
                   store_hist, handles, article_page>>
    /\ UNCHANGED <<CATEGORY_KEYWORDS, applied>>
    /\ UNCHANGED <<files, writers>>

UrlsNext ==
    \/ UrlsExtract
    \/ UrlsVisit
    \/ UrlsSave

UrlsSpec == UrlsInit /\ [][UrlsNext]_vars

----------------------------------------------------------------------------
(* RapplerScraper.extract_claim on the elements of one article page *)

\* An element of the page: its tag, whether it lies inside div.entry-content,
\* whether its label is set in <strong>, and its inner text as tokens (a label,
\* a blank and the statement)
Element(tag, in_content, strong, text) ==
    [tag |-> tag, in_content |-> in_content, strong |-> strong, text |-> text]

\* The labels of the five selectors, in the order extract_claim tries them, each
\* followed by a blank in the prefix it removes
ClaimLabels == <<"Claim:", "The claim:", "Ang sabi-sabi:", "CLAIM:", "ANG SABI-SABI:">>

\* Lower case of a token
lower(token) ==
    CASE token \in {"Claim:", "CLAIM:"} -> "claim:"
      [] token = "The claim:" -> "the claim:"
      [] token \in {"Ang sabi-sabi:", "ANG SABI-SABI:"} -> "ang sabi-sabi:"
      [] token = "Senate" -> "senate"
      [] token = "Update" -> "update"
      [] token = "Politics" -> "politics"
      [] token = "DOH" -> "doh"
      [] OTHER -> token

\* :has-text('...') and :text('...') of Playwright: the element contains the text
\* as a substring, case ignored
has_text(e, label) ==
    \E i \in 1..Len(e.text) :
        \/ lower(e.text[i]) = lower(label)
        \/ lower(e.text[i]) = "the claim:" /\ lower(label) = "claim:"

\* The elements the k-th locator of extract_claim selects
Selects(k, e) ==
    /\ has_text(e, ClaimLabels[k])
    /\ CASE k = 1 -> \/ e.tag = "p" /\ e.in_content
                     \/ e.tag = "li" /\ e.strong
                     \/ e.tag = "h5"
         [] k = 2 -> e.tag = "p" /\ e.in_content
         [] k = 3 -> \/ e.tag = "p" /\ e.in_content
                     \/ e.tag = "li" /\ e.strong
         [] k \in {4, 5} -> e.tag = "p"

RECURSIVE strip_tokens(_)
\* str.strip() on a text given as tokens
strip_tokens(text) ==
    IF text = <<>> THEN <<>>
    ELSE IF Head(text) = " " THEN strip_tokens(Tail(text))
    ELSE IF text[Len(text)] = " " THEN strip_tokens(SubSeq(text, 1, Len(text) - 1))
    ELSE text

\* str.removeprefix(label + " "): case matters
removeprefix(text, label) ==
    IF Len(text) >= 2 /\ text[1] = label /\ text[2] = " "
    THEN SubSeq(text, 3, Len(text))
    ELSE text

RECURSIVE extract_claim_from(_, _)
\* extract_claim from the k-th locator on: count() > 0, then inner_text(), which
\* raises when the locator selects more than one element
extract_claim_from(k, elements) ==
    IF k > Len(ClaimLabels) THEN [raised |-> TRUE, claim |-> <<>>]
    ELSE LET selected == SelectSeq(elements, LAMBDA e : Selects(k, e))
         IN  IF Len(selected) = 0 THEN extract_claim_from(k + 1, elements)
             ELSE IF Len(selected) > 1 THEN [raised |-> TRUE, claim |-> <<>>]
             ELSE [raised |-> FALSE,
                   claim |-> removeprefix(strip_tokens(selected[1].text), ClaimLabels[k])]

extract_claim(elements) == extract_claim_from(1, elements)

\* Elements a page may show
ClaimElements ==
    { Element("p", TRUE, FALSE, <<label, " ", "Vaccines cause X">>) :
        label \in {"Claim:", "The claim:", "Ang sabi-sabi:", "CLAIM:", "ANG SABI-SABI:"} }
    \cup { Element("p", TRUE, FALSE, <<" ", "Claim:", " ", "Y", " ">>),
           Element("p", TRUE, FALSE, <<"Z">>),
           Element("p", FALSE, FALSE, <<"CLAIM:", " ", "W">>),
           Element("li", FALSE, TRUE, <<"Ang sabi-sabi:", " ", "V">>),
           Element("li", FALSE, FALSE, <<"Claim:", " ", "U">>),
           Element("h5", FALSE, FALSE, <<"Claim:", " ", "T">>) }

ClaimInit ==
    /\ variant = "rappler"
    /\ start_page \in {1}
    /\ pc = "page"
    /\ curr_page = 1
    /\ urls = <<>>
    /\ idx = 1
    /\ article_datas = <<>>
    /\ sess = start(NoSession, 0)
    /\ output_doc = MissingDoc
    /\ retry_doc = MissingDoc
    /\ nav = NoNav
    /\ exc = "none"
    /\ quit_calls = 0
    /\ restarts = {}
    /\ page_acc = NoAcc
    /\ site_left = 0
    /\ calls = 0
    /\ sess_log = NoSessLog
    /\ last_append = NoAppend
    /\ store_hist = NoHist
    /\ handles = NoHandles
    /\ article_page = NoArticlePage
    /\ CATEGORY_KEYWORDS = NoCategoryKeywords
    /\ \E elements \in SeqsUpTo(ClaimElements, MaxElements) :
          applied = [op |-> "page", elements |-> elements]
    /\ files = NoFiles
    /\ writers = NoWriters

\* claim = await self.extract_claim()
ClaimExtract ==
    /\ pc = "page"
    /\ LET r == extract_claim(applied.elements)
       IN  /\ applied' = [op |-> "extract_claim", elements |-> applied.elements,
                          raised |-> r.raised, claim |-> r.claim]
           /\ exc' = IF r.raised THEN "Exception" ELSE exc
    /\ pc' = "extracted"
    /\ UNCHANGED <<variant, start_page, curr_page, urls, idx, article_datas, sess,
                   output_doc, retry_doc, nav, quit_calls, restarts, page_acc,
                   site_left, calls, sess_log, last_append, store_hist, handles,
                   article_page, CATEGORY_KEYWORDS>>
    /\ UNCHANGED <<files, writers>>

ClaimNext == ClaimExtract

ClaimSpec == ClaimInit /\ [][ClaimNext]_vars

----------------------------------------------------------------------------
(* BaseScraper.categorize_article *)

\* A score: the float matches / len(keywords) plus the boosts, kept as an exact
\* fraction. The order and the equality of these fractions are those of the
\* floats the code computes as long as no list holds more than four keywords.
Frac(num, den) == [num |-> num, den |-> den]
Less(a, b) == a.num * b.den < b.num * a.den
AddTenths(a, tenths) == Frac(a.num * 10 + tenths * a.den, a.den * 10)

\* scores[category] += 0.3 and scores["government"] += 0.2, in tenths
UrlBoostTenths == 3
EntityBoostTenths == 2

\* `keyword in text_lower': the keyword is a substring of the text; words are
\* tokens, and "elections" is the one word that holds another token
KeywordIn(keyword, text_lower) ==
    \E i \in 1..Len(text_lower) :
        \/ text_lower[i] = keyword
        \/ text_lower[i] = "elections" /\ keyword = "election"

\* A score that marks an empty keyword list with -1
BaseScraper_get_keyword_score_EmptyIsMinusOne(text, keywords) ==
    LET text_lower == [i \in 1..Len(text) |-> lower(text[i])]
        matches == Cardinality({i \in 1..Len(keywords) : KeywordIn(keywords[i], text_lower)})
    IN  IF keywords # <<>> THEN Frac(matches, Len(keywords)) ELSE Frac(0 - 1, 1)

\* BaseScraper._get_keyword_score
BaseScraper_get_keyword_score(text, keywords) ==
    LET text_lower == [i \in 1..Len(text) |-> lower(text[i])]
        matches == Cardinality({i \in 1..Len(keywords) : KeywordIn(keywords[i], text_lower)})
    IN  IF keywords # <<>> THEN Frac(matches, Len(keywords)) ELSE Frac(0, 1)

\* urlparse(url).path.lower(): what follows the scheme and the host
url_path_of(url) ==
    IF Len(url) >= 4 /\ url[2] = "/" /\ url[3] = "/"
    THEN [i \in 1..(Len(url) - 4) |-> lower(url[i + 4])]
    ELSE [i \in 1..Len(url) |-> lower(url[i])]

\* `pattern in url_path'
PatternIn(pattern, url_path) ==
    \E i \in 0..(Len(url_path) - Len(pattern)) :
        \A j \in 1..Len(pattern) : url_path[i + j] = pattern[j]

\* url_categories, a dict: its keys in insertion order and its values
UrlCategoryKeys == <<"politics", "social-issues", "government">>
url_categories(category) ==
    CASE category = "politics" ->
            { <<"/", "politics", "/">>, <<"/", "government", "/">>,
              <<"/", "elections", "/">> }
      [] category = "social-issues" ->
            { <<"/", "nation", "/">>, <<"/", "metro-manila", "/">>,
              <<"/", "regions", "/">> }
      [] category = "government" ->
            { <<"/", "agencies", "/">>, <<"/", "departments", "/">>,
              <<"/", "bureau", "/">>, <<"/", "office", "/">> }

\* scores, a dict: its keys in insertion order and its values
ScoreKeys == <<"politics", "social_issues", "news", "government">>
InitialScores(keywords, text_combined) ==
    [keys |-> ScoreKeys,
     val |-> [category \in {"politics", "social_issues", "news", "government"} |->
                CASE category = "politics" ->
                        BaseScraper_get_keyword_score(text_combined, keywords.politics)
                  [] category = "social_issues" ->
                        BaseScraper_get_keyword_score(text_combined, keywords.social_issues)
                  [] category = "news" ->
                        BaseScraper_get_keyword_score(text_combined, keywords.news)
                  [] category = "government" ->
                        BaseScraper_get_keyword_score(text_combined,
                                                      keywords.government_entities)]]

RECURSIVE UrlBoost_AlwaysHits(_, _, _)
\* A boost loop without the test of the patterns against the path
UrlBoost_AlwaysHits(scores, url_path, k) ==
    IF k > Len(UrlCategoryKeys) THEN scores
    ELSE LET category == UrlCategoryKeys[k]
             known == \E i \in 1..Len(scores.keys) : scores.keys[i] = category
             next == IF known
                     THEN [scores EXCEPT !.val[category] = AddTenths(@, UrlBoostTenths)]
                     ELSE scores
         IN  UrlBoost_AlwaysHits(next, url_path, k + 1)

RECURSIVE UrlBoost_NoKeyGuard(_, _, _)
\* A boost loop that adds to scores under the key of url_categories whether or
\* not scores has that key
UrlBoost_NoKeyGuard(scores, url_path, k) ==
    IF k > Len(UrlCategoryKeys) THEN scores
    ELSE LET category == UrlCategoryKeys[k]
             hit == \E pattern \in url_categories(category) : PatternIn(pattern, url_path)
             known == \E i \in 1..Len(scores.keys) : scores.keys[i] = category
             next == IF ~hit THEN scores
                     ELSE IF known
                     THEN [scores EXCEPT !.val[category] = AddTenths(@, UrlBoostTenths)]
                     ELSE [keys |-> Append(scores.keys, category),
                           val |-> [c \in DOMAIN scores.val \cup {category} |->
                                      IF c = category THEN Frac(UrlBoostTenths, 10)
                                      ELSE scores.val[c]]]
         IN  UrlBoost_NoKeyGuard(next, url_path, k + 1)

RECURSIVE UrlBoost(_, _, _)
\* for category, patterns in url_categories.items(): the boost of the categories
\* from the k-th on
UrlBoost(scores, url_path, k) ==
    IF k > Len(UrlCategoryKeys) THEN scores
    ELSE LET category == UrlCategoryKeys[k]
             hit == \E pattern \in url_categories(category) : PatternIn(pattern, url_path)
             known == \E i \in 1..Len(scores.keys) : scores.keys[i] = category
             next == IF hit /\ known
                     THEN [scores EXCEPT !.val[category] = AddTenths(@, UrlBoostTenths)]
                     ELSE scores
         IN  UrlBoost(next, url_path, k + 1)

\* url_parts = url_path.split("/"); a government entity that is one of the parts
\* adds 0.2 to government
EntityBoost(scores, url_path, government_entities) ==
    IF \E i \in 1..Len(government_entities), j \in 1..Len(url_path) :
           url_path[j] # "/" /\ government_entities[i] = url_path[j]
    THEN [scores EXCEPT !.val["government"] = AddTenths(@, EntityBoostTenths)]
    ELSE scores

RECURSIVE MaxKeyFrom_LastMaximal(_, _, _)
\* A maximum that keeps the last of the keys with the highest score
MaxKeyFrom_LastMaximal(scores, best, k) ==
    IF k > Len(scores.keys) THEN best
    ELSE MaxKeyFrom_LastMaximal(scores,
                   IF Less(scores.val[scores.keys[k]], scores.val[best])
                   THEN best ELSE scores.keys[k],
                   k + 1)

RECURSIVE MaxKeyFrom(_, _, _)
\* max(scores, key=scores.get): the keys are run through in insertion order and a
\* later key replaces the best one only when its score is greater
MaxKeyFrom(scores, best, k) ==
    IF k > Len(scores.keys) THEN best
    ELSE MaxKeyFrom(scores,
                   IF Less(scores.val[best], scores.val[scores.keys[k]])
                   THEN scores.keys[k] ELSE best,
                   k + 1)

\* BaseScraper.categorize_article: whether it raises, the scores before and after
\* the boosts and the category returned
categorize_article(keywords, title, content, url) ==
    LET url_path == url_path_of(url)
        text_combined == title \o <<" ">> \o content
        scores == InitialScores(keywords, text_combined)
        boosted == EntityBoost(UrlBoost(scores, url_path, 1), url_path,
                               keywords.government_entities)
    IN  IF ~keywords.set
        THEN [raised |-> TRUE, pre |-> <<>>, scores |-> <<>>, result |-> None]
        ELSE [raised |-> FALSE, pre |-> scores.val, scores |-> boosted.val,
              result |-> IF \E c \in DOMAIN boosted.val : boosted.val[c].num > 0
                         THEN MaxKeyFrom(boosted, boosted.keys[1], 2) ELSE "news"]

\* The keyword lists a configuration takes its lists from, each list being the
\* first keywords of one of them
PoliticsPool == <<"senate", "election", "vote", "campaign">>
SocialIssuesPool == <<"poverty", "health", "education", "housing">>
NewsPool == <<"report", "update", "breaking", "latest">>
GovernmentEntitiesPool == <<"doh", "dilg", "DOH", "deped">>
KeywordConfigurations ==
    { CategoryKeywords(SubSeq(PoliticsPool, 1, a), SubSeq(SocialIssuesPool, 1, b),
                       SubSeq(NewsPool, 1, c), SubSeq(GovernmentEntitiesPool, 1, d)) :
        a \in 0..MaxKeywords, b \in 0..MaxKeywords, c \in 0..MaxKeywords,
        d \in 0..MaxKeywords }

\* Titles, contents and urls categorize_article is called with
Titles == { <<"Senate">>, <<"Update">> }
Contents ==
    { <<>>, <<"poverty", "report">>, <<"elections", "health">>,
      <<"doh", "vote", "breaking">> }
ArticleUrl(path) == Origin("rappler") \o path
ArticleUrls ==
    { ArticleUrl(<<"/", "nation", "/", "x">>),
      ArticleUrl(<<"/", "Politics", "/", "x">>),
      ArticleUrl(<<"/", "agencies", "/", "doh", "/", "x">>),
      ArticleUrl(<<"/", "doh", "/", "x">>),
      ArticleUrl(<<"/", "world", "/", "x">>),
      ArticleUrl(<<"/", "elections", "/", "regions", "/", "x">>) }

CategorizeInit ==
    /\ variant = "rappler_unified"
    /\ start_page \in {1}
    /\ pc = "constructed"
    /\ curr_page = 1
    /\ urls = <<>>
    /\ idx = 1
    /\ article_datas = <<>>
    /\ sess = NoSession
    /\ output_doc = MissingDoc
    /\ retry_doc = MissingDoc
    /\ nav = NoNav
    /\ exc = "none"
    /\ quit_calls = 0
    /\ restarts = {}
    /\ page_acc = NoAcc
    /\ site_left = 0
    /\ calls = 0
    /\ sess_log = NoSessLog
    /\ last_append = NoAppend
    /\ store_hist = NoHist
    /\ handles = NoHandles
    /\ article_page = NoArticlePage
    /\ CATEGORY_KEYWORDS \in KeywordConfigurations \cup {NoCategoryKeywords}
    /\ applied = NoCall
    /\ files = NoFiles
    /\ writers = NoWriters

\* category = self.categorize_article(title, content, url)
CategorizeArticle ==
    /\ pc = "constructed"
    /\ \E title \in Titles, content \in Contents, url \in ArticleUrls :
        LET r == categorize_article(CATEGORY_KEYWORDS, title, content, url)
        IN  applied' = [op |-> "categorize_article", title |-> title,
                        content |-> content, url |-> url, raised |-> r.raised,
                        pre |-> r.pre, scores |-> r.scores, result |-> r.result,
                        previous |-> NoCall]
    /\ pc' = "categorized"
    /\ UNCHANGED <<variant, start_page, curr_page, urls, idx, article_datas, sess,
                   output_doc, retry_doc, nav, exc, quit_calls, restarts, page_acc,
                   site_left, calls, sess_log, last_append, store_hist, handles,
                   article_page, CATEGORY_KEYWORDS>>
    /\ UNCHANGED <<files, writers>>

\* A second self.categorize_article(title, content, url) with the same arguments
CategorizeAgain ==
    /\ pc = "categorized"
    /\ LET r == categorize_article(CATEGORY_KEYWORDS, applied.title, applied.content,
                                   applied.url)
       IN  applied' = [applied EXCEPT !.raised = r.raised, !.pre = r.pre,
                                      !.scores = r.scores, !.result = r.result,
                                      !.previous = [op |-> "categorize_article",
                                                    raised |-> applied.raised,
                                                    result |-> applied.result]]
    /\ pc' = "categorized_again"
    /\ UNCHANGED <<variant, start_page, curr_page, urls, idx, article_datas, sess,
                   output_doc, retry_doc, nav, exc, quit_calls, restarts, page_acc,
                   site_left, calls, sess_log, last_append, store_hist, handles,
                   article_page, CATEGORY_KEYWORDS>>
    /\ UNCHANGED <<files, writers>>

CategorizeNext ==
    \/ CategorizeArticle
    \/ CategorizeAgain

CategorizeSpec == CategorizeInit /\ [][CategorizeNext]_vars

----------------------------------------------------------------------------
(* Two crawl processes appending to the documents of the outputs directory, *)
(* one file operation at a time                                             *)

\* A constructor that hands RapplerUnified the file name of Rappler
output_file_UnifiedSharesRappler(v) ==
    CASE v = "factcheckorg" -> "outputs/factcheckorg-factcheck.json"
      [] v = "fullfact" -> "outputs/fullfact-factcheck.json"
      [] v = "politifact" -> "outputs/politifact-factcheck.json"
      [] v = "poynter" -> "outputs/poynter-factcheck.json"
      [] v = "rappler" -> "outputs/rappler-factcheck.json"
      [] v = "rappler_elections" -> "outputs/rappler-elections.json"
      [] v = "rappler_unified" -> "outputs/rappler-factcheck.json"

\* self.output_file and self.retry_file, below BASE_DIR
output_file(v) ==
    CASE v = "factcheckorg" -> "outputs/factcheckorg-factcheck.json"
      [] v = "fullfact" -> "outputs/fullfact-factcheck.json"
      [] v = "politifact" -> "outputs/politifact-factcheck.json"
      [] v = "poynter" -> "outputs/poynter-factcheck.json"
      [] v = "rappler" -> "outputs/rappler-factcheck.json"
      [] v = "rappler_elections" -> "outputs/rappler-elections.json"
      [] v = "rappler_unified" -> "outputs/rappler-unified.json"
retry_file(v) ==
    CASE v = "factcheckorg" -> "outputs/factcheckorg-factcheck-retry.json"
      [] v = "fullfact" -> "outputs/fullfact-factcheck-retry.json"
      [] v = "politifact" -> "outputs/politifact-factcheck-retry.json"
      [] v = "poynter" -> "outputs/poynter-factcheck-retry.json"
      [] v = "rappler" -> "outputs/rappler-factcheck-retry.json"
      [] v = "rappler_elections" -> "outputs/rappler-elections-retry.json"
      [] v = "rappler_unified" -> "outputs/rappler-unified-retry.json"

\* The file a process appends to
FileOf(writer) ==
    IF writer.store = "output" THEN output_file(writer.variant)
    ELSE retry_file(writer.variant)

\* The k-th entry process w appends
WriterEntry(w, k) ==
    LET url == Origin(writers[w].variant) \o <<"/", ToString(w), "/", ToString(k)>>
    IN  IF writers[w].store = "output"
        THEN RawData("title", "content", IsoDateTimeAttr, url, Source(writers[w].variant),
                     "news", None, None, <<>>)
        ELSE [url |-> url, reason |-> ""]

\* A rewrite that reads the document once more and adds the entry to what it
\* holds then
DumpedData_Rereads(existing_data, current, entry) ==
    Append(IF current.kind = "list" THEN json_load(current.items) ELSE <<>>, entry)

\* existing_data.append(...); json.dump(existing_data, f): what is written is what
\* was read, whatever the document holds by now
DumpedData(existing_data, current, entry) == Append(existing_data, entry)

\* The document after a process wrote its text from the start of the file it
\* had truncated: when another process has written a longer text since, the end
\* of that text stays behind the new one and the document no longer decodes
Overlaid(current, data) ==
    IF current.kind = "list" /\ Len(current.items) > Len(data)
    THEN CorruptDoc
    ELSE ListDoc(data)

Processes == {1, 2}

WritersInit ==
    /\ variant \in {"factcheckorg"}
    /\ start_page \in {1}
    /\ pc = "appending"
    /\ curr_page = 1
    /\ urls = <<>>
    /\ idx = 1
    /\ article_datas = <<>>
    /\ sess = NoSession
    /\ output_doc = MissingDoc
    /\ retry_doc = MissingDoc
    /\ nav = NoNav
    /\ exc = "none"
    /\ quit_calls = 0
    /\ restarts = {}
    /\ page_acc = NoAcc
    /\ site_left = 0
    /\ calls = 0
    /\ sess_log = NoSessLog
    /\ last_append = NoAppend
    /\ store_hist = NoHist
    /\ handles = NoHandles
    /\ article_page = NoArticlePage
    /\ CATEGORY_KEYWORDS = NoCategoryKeywords
    /\ applied = NoCall
    /\ writers \in [Processes ->
                      { [variant |-> v, store |-> store, step |-> "idle",
                         existing_data |-> <<>>, reported |-> <<>>] :
                          v \in Variants, store \in {"output", "retry"} }]
    /\ files = [path \in {output_file(v) : v \in Variants}
                         \cup {retry_file(v) : v \in Variants} |-> MissingDoc]

\* if os.path.exists(...): with open(..., "r") as f: existing_data = json.load(f)
WriterRead ==
    \E w \in Processes :
        /\ writers[w].step = "idle"
        /\ Len(writers[w].reported) < MaxWrites
        /\ writers' = [writers EXCEPT ![w].step = "read",
                                      ![w].existing_data = Items(files[FileOf(writers[w])])]
        /\ UNCHANGED <<variant, start_page, pc, curr_page, urls, idx, article_datas, sess,
                       output_doc, retry_doc, nav, exc, quit_calls, restarts, page_acc,
                       site_left, calls, sess_log, last_append, store_hist, handles,
                       article_page, CATEGORY_KEYWORDS, applied, files>>

\* with open(..., "w") as f: the file is truncated
WriterOpen ==
    \E w \in Processes :
        /\ writers[w].step = "read"
        /\ writers' = [writers EXCEPT ![w].step = "opened"]
        /\ files' = [files EXCEPT ![FileOf(writers[w])] = CorruptDoc]
        /\ UNCHANGED <<variant, start_page, pc, curr_page, urls, idx, article_datas, sess,
                       output_doc, retry_doc, nav, exc, quit_calls, restarts, page_acc,
                       site_left, calls, sess_log, last_append, store_hist, handles,
                       article_page, CATEGORY_KEYWORDS, applied>>

\* json.dump(existing_data, f, ...), the file is closed and "Saved" is printed
WriterDump ==
    \E w \in Processes :
        LET entry == WriterEntry(w, Len(writers[w].reported) + 1)
            current == files[FileOf(writers[w])]
        IN  /\ writers[w].step = "opened"
            /\ files' = [files EXCEPT ![FileOf(writers[w])] =
                            Overlaid(current,
                                     DumpedData(writers[w].existing_data, current, entry))]
            /\ writers' = [writers EXCEPT ![w].step = "idle",
                                          ![w].existing_data = <<>>,
                                          ![w].reported = Append(@, entry)]
            /\ UNCHANGED <<variant, start_page, pc, curr_page, urls, idx, article_datas,
                           sess, output_doc, retry_doc, nav, exc, quit_calls, restarts,
                           page_acc, site_left, calls, sess_log, last_append, store_hist,
                           handles, article_page, CATEGORY_KEYWORDS, applied>>

WritersNext ==
    \/ WriterRead
    \/ WriterOpen
    \/ WriterDump

WritersSpec == WritersInit /\ [][WritersNext]_vars

----------------------------------------------------------------------------
(* Properties *)

\* process() has ended: normally or in the except branch ("done"), by an exception
\* leaving it ("raised"), or by Poynter's early return ("returned").
ProcessEnded == pc \in {"done", "raised", "returned"}

\* C1: a listing page that yields zero article URLs ends the crawl normally: the
\* for-loop over its urls is never entered with an empty list (the while loop is
\* left instead), the page adds nothing to the retry list, and process() then
\* runs quit() before it ends.
C1_EmptyListingEndsCrawl ==
    /\ pc = "for_url" => urls # <<>>
    /\ (pc \in {"for_url", "finally", "done"} /\ urls = <<>> /\ page_acc.page = curr_page)
          => page_acc.retried = {}
    /\ pc = "done" => quit_calls > Cardinality(restarts)

\* The step of extract_data_from_url in which every navigation attempt failed
NavigationExhausted ==
    pc = "extract_data" /\ nav'.kind = "article" /\ nav'.result = "false"

\* What that step leaves apart from the retry document: no record, the output
\* document untouched, and the for-loop moved on to the next url
SkipsToNextUrl ==
    /\ output_doc' = output_doc
    /\ article_datas' = <<>>
    /\ idx' = idx + 1
    /\ pc' = IF variant = "poynter" THEN "loop" ELSE "for_url"
    /\ exc' = "none"

\* The retry list has grown by exactly one entry, for the url being processed
OneRetryEntryAdded ==
    /\ Len(Items(retry_doc')) = Len(Items(retry_doc)) + 1
    /\ SubSeq(Items(retry_doc'), 1, Len(Items(retry_doc))) = Items(retry_doc)
    /\ Items(retry_doc')[Len(Items(retry_doc'))].url = urls[idx]

\* C2 as stated: when navigation to an article url fails max_retries times in a
\* row, exactly one RetryEntry with that url is appended, no record for it is
\* appended to the output, and the crawl proceeds to the next url.
C2_NavFailureLoggedOnce ==
    [][NavigationExhausted => (OneRetryEntryAdded /\ SkipsToNextUrl)]_vars

\* C2 as amended: when navigation to an article url fails max_retries times in a
\* row, no record for it is appended to the output and the crawl proceeds to the
\* next url; exactly one RetryEntry with that url is appended when the append meets
\* no I/O error, and when it does the error is swallowed and no entry is added
\* (the retry list is left as it was, or unreadable after a failed rewrite).
C2_NavFailureLoggedAtMostOnce ==
    [][NavigationExhausted =>
          /\ SkipsToNextUrl
          /\ IF idx \in page_acc'.retried
             THEN OneRetryEntryAdded
             ELSE retry_doc' = retry_doc \/ retry_doc' = CorruptDoc]_vars

\* C2 witness: an article navigation has just been exhausted and the retry list
\* ends with the entry of that url.
C2_Witness ==
    /\ pc \in {"for_url", "loop"}
    /\ nav.kind = "article" /\ nav.result = "false" /\ nav.attempts = DefaultMaxRetries
    /\ Len(Items(retry_doc)) >= 1
    /\ Items(retry_doc)[Len(Items(retry_doc))].url = urls[idx - 1]
    /\ output_doc = MissingDoc

\* What holds of a finished listing page whatever the file system did
PageProcessed ==
    /\ page_acc.saved \subseteq 1..page_acc.n
    /\ page_acc.failed \subseteq 1..page_acc.n
    /\ page_acc.saved \cap page_acc.failed = {}
    /\ curr_page = page_acc.page + 1

\* C3 as stated: after a listing page with n urls of which k failed, the output has
\* gained records only for the n-k successful urls, the retry list has gained
\* exactly k entries, and the loop has advanced to the next listing page.
C3_PageAccounting ==
    page_acc.done =>
        /\ PageProcessed
        /\ Len(Items(retry_doc)) = page_acc.retry0 + Cardinality(page_acc.failed)

\* C3 as amended: after a listing page with n urls of which k failed, the output has
\* gained records only for successful urls, the loop has advanced to the next
\* listing page, and the retry list has gained one entry per failed url whose
\* retry append met no I/O error: at most k entries, and exactly k when none of
\* the k appends failed.
C3_PageAccountingModuloIo ==
    page_acc.done =>
        /\ PageProcessed
        /\ page_acc.retried \subseteq page_acc.failed
        /\ Len(Items(retry_doc)) <= page_acc.retry0 + Cardinality(page_acc.failed)
        /\ page_acc.retried = page_acc.failed
              => Len(Items(retry_doc)) = page_acc.retry0 + Cardinality(page_acc.failed)

\* C3 witness: a finished page of two urls, one saved to the output and one
\* failed and logged, after which the loop stands at the next page.
C3_Witness ==
    /\ page_acc.done /\ page_acc.n = 2
    /\ Cardinality(page_acc.failed) = 1 /\ page_acc.retried = page_acc.failed
    /\ Cardinality(page_acc.saved) = 1
    /\ Len(Items(retry_doc)) = page_acc.retry0 + 1
    /\ Len(Items(output_doc)) >= 1
    /\ pc = "nav_listing" /\ curr_page = page_acc.page + 1

\* C4: on every exit path of process() - normal end, exception inside the loop,
\* failed start(), early return before the loop - quit() has been run by
\* process() itself (one call more than the restarts made) before it ends.
C4_QuitOnEveryExit ==
    ProcessEnded => quit_calls > Cardinality(restarts)

\* Whether restart is due on entry to page p, from the configuration alone
RestartDue(p) ==
    /\ HasRestartInterval(variant)
    /\ p % RestartInterval(variant) = 0
    /\ p # start_page

\* C5: restart is invoked on entry to a page, before the navigation to it, exactly
\* when the page is a multiple of restart_interval and is not the start page.
C5_RestartExactlyOnBoundary ==
    /\ \A p \in restarts : RestartDue(p)
    /\ pc \in {"nav_listing", "extract_listing", "for_url", "extract_data", "save"}
          => (curr_page \in restarts <=> RestartDue(curr_page))

\* C5 witness: Fullfact (restart_interval 5) is about to navigate to listing page 5,
\* having restarted on entry to it and not on entry to its start page.
C5_Witness ==
    /\ variant = "fullfact" /\ pc = "nav_listing"
    /\ curr_page = FullfactRestartInterval /\ restarts = {FullfactRestartInterval}
    /\ sess.page = "live"

\* C6: every variant whose loop reads restart_interval has it set, so the restart
\* test on entry to the first page never raises.
C6_RestartIntervalSet ==
    exc # "AttributeError: restart_interval"

\* Whether attempt i of the recorded call loaded the page
NavLoads(i) == nav.page = "live" /\ nav.gotos[i]

\* C7: navigate_with_retry makes at most max_retries attempts, stops at the first
\* one that succeeds and returns true, returns false exactly when all max_retries
\* attempts failed, and never raises on account of a failed attempt.
C7_NavigateBoundedRetry ==
    nav.kind = "api" =>
        /\ nav.attempts <= nav.max_retries
        /\ nav.result = "true" =>
              /\ nav.attempts >= 1
              /\ NavLoads(nav.attempts)
              /\ \A i \in 1..(nav.attempts - 1) : ~NavLoads(i)
        /\ nav.result = "false" =>
              /\ nav.attempts = nav.max_retries
              /\ \A i \in 1..nav.max_retries : ~NavLoads(i)
        /\ (nav.result # "raised" /\ \A i \in 1..nav.max_retries : ~NavLoads(i))
              => nav.result = "false"
        /\ nav.result = "raised" => (nav.attempts = 0 /\ nav.page = "none")
        /\ nav.result \in {"true", "false", "raised"}

\* C7 witness: a call that succeeded on its second attempt
C7_Witness ==
    nav.kind = "api" /\ nav.result = "true" /\ nav.attempts = 2 /\ nav.max_retries = 3

\* C8: one sleep after each failed attempt that is followed by another attempt and
\* none after the last: k-1 sleeps before a success on attempt k, max_retries-1
\* before a false return.
C8_SleepsBetweenAttempts ==
    nav.kind = "api" =>
        /\ nav.result = "true" => nav.sleeps = nav.attempts - 1
        /\ nav.result = "false" => nav.sleeps = nav.max_retries - 1

\* C8 witness: a call of three attempts that all failed, with two sleeps
C8_Witness ==
    /\ nav.kind = "api" /\ nav.result = "false"
    /\ nav.max_retries = 3 /\ nav.attempts = 3 /\ nav.sleeps = 2

\* C9: in every variant, navigate on a session that was not started (page is None)
\* raises at once, with no navigation attempt and no sleep.
C9_UnstartedNavigateRaises ==
    (nav.kind = "api" /\ nav.page = "none")
        => (nav.result = "raised" /\ nav.attempts = 0 /\ nav.sleeps = 0)

\* C10: when the navigation to a listing page has failed after all its retries,
\* the loop ends as on an empty listing: no url of that page is processed.
C10_FailedListingNavEndsCrawl ==
    (nav.kind = "listing" /\ nav.result = "false")
        => pc \in {"extract_listing", "finally", "done"}

\* The step of extract_data_from_url in which the page was reached and one of the
\* required field extractors raised
ExtractorRaisedStep ==
    /\ pc = "extract_data"
    /\ nav'.kind = "article" /\ nav'.result = "true"
    /\ ExtractorRaises(variant, article_page')

\* No position of the page being processed has both an output record and a retry entry
NeverBothStores == page_acc.saved \cap page_acc.retried = {}

\* C11 as stated: when a required field extractor raises on an article url, no
\* record with that url is appended to the output and exactly one RetryEntry with
\* that url is appended; no url processed once has both a record and a RetryEntry.
C11_ExtractFailureLoggedOnce ==
    /\ [][ExtractorRaisedStep => (OneRetryEntryAdded /\ SkipsToNextUrl)]_vars
    /\ []NeverBothStores

\* C11 as amended: when a required field extractor raises on an article url, no
\* record with that url is appended to the output and the crawl goes on; exactly
\* one RetryEntry with that url is appended when the append meets no I/O error, and
\* none when it does (the retry list is left as it was, or unreadable after a
\* failed rewrite); no url processed once has both a record and a RetryEntry.
C11_ExtractFailureLoggedAtMostOnce ==
    /\ [][ExtractorRaisedStep =>
            /\ SkipsToNextUrl
            /\ last_append'.store = "retry"
            /\ IF last_append'.saved
               THEN OneRetryEntryAdded
               ELSE retry_doc' = retry_doc \/ retry_doc' = CorruptDoc]_vars
    /\ []NeverBothStores

\* C11 witness: the page of an article was reached, its title extractor raised, and
\* the retry list ends with the entry of that url while the output is untouched.
C11_Witness ==
    /\ pc \in {"for_url", "loop"}
    /\ nav.kind = "article" /\ nav.result = "true"
    /\ article_page.title = Absent
    /\ last_append.store = "retry" /\ last_append.saved
    /\ Items(retry_doc)[Len(Items(retry_doc))].url = urls[idx - 1]
    /\ output_doc = MissingDoc

\* The document behind a store
StoreDoc(store) == IF store = "output" THEN output_doc ELSE retry_doc

\* C12: after any sequence of appends R1..Rn by a single writer to an empty or
\* missing store, none of which hit an error, the document read back is exactly
\* the list [R1, ..., Rn] in append order with every field value unchanged.
C12_AppendsReadBackInOrder ==
    \A store \in {"output", "retry"} :
        (pc = "store" /\ store_hist[store].first \in {"missing", "list"}
                      /\ store_hist[store].clean)
            => /\ StoreDoc(store).kind \in {"missing", "list"}
               /\ Items(StoreDoc(store)) = store_hist[store].entries

\* C12 witness: three appends to a missing output store, none failed, the first and
\* the last of them the record with None fields and the middle one the other.
C12_Witness ==
    /\ pc = "store" /\ store_hist["output"].first = "missing"
    /\ store_hist["output"].clean /\ Len(store_hist["output"].entries) = 3
    /\ Items(output_doc)[1].publish_date = None
    /\ Items(output_doc)[2].publish_date = "date"
    /\ Items(output_doc)[3].authors = <<"A", "B">>

\* The append made by the step, if any: the store it wrote to
AppendStep(store) ==
    /\ pc = "store"
    /\ Len(store_hist'[store].entries) = Len(store_hist[store].entries) + 1

\* The entries of the first sequence are the first entries of the second
IsPrefix(old, new) ==
    /\ Len(old) <= Len(new)
    /\ SubSeq(new, 1, Len(old)) = old

\* C13: for a store whose document is a valid list, every append - whether it
\* succeeds or fails at any I/O step - leaves the previous entries as an unchanged
\* prefix of the document; the number of stored entries never decreases.
C13_AppendOnlyPrefix ==
    [][\A store \in {"output", "retry"} :
         (AppendStep(store) /\ StoreDoc(store).kind = "list")
            => /\ StoreDoc(store)'.kind = "list"
               /\ IsPrefix(Items(StoreDoc(store)), Items(StoreDoc(store)'))]_vars

FailedAppendStep ==
    /\ pc \in {"extract_data", "save"}
    /\ last_append'.store # "none"
    /\ ~last_append'.saved

\* C15: append_to_json and append_to_retry never raise to the caller whichever
\* step fails (directory creation, read, open, rewrite); the failed append is not
\* retried - the file is opened for writing at most once and the record or url is
\* left behind - and the crawl goes on with the next record or url.
C15_AppendNeverRaises ==
    /\ [](~last_append.raised /\ last_append.writes <= 1)
    /\ [][FailedAppendStep =>
            /\ last_append'.failure # "none"
            /\ exc' = "none"
            /\ IF pc = "save"
               THEN /\ last_append'.store = "output"
                    /\ article_datas' = Tail(article_datas)
                    /\ pc' = IF article_datas' = <<>> THEN AfterUrl(variant) ELSE "save"
               ELSE /\ last_append'.store = "retry"
                    /\ article_datas' = <<>>
                    /\ pc' = AfterUrl(variant)
            /\ pc' = AfterUrl(variant) => idx' = idx + 1]_vars

\* C15 witness: the append of the first url's record failed on the file system, and
\* the crawl stands at the second url with no exception raised.
C15_Witness ==
    /\ pc = "for_url" /\ idx = 2 /\ Len(urls) = 2
    /\ last_append.store = "output" /\ last_append.failure = "OSError"
    /\ ~last_append.saved /\ ~last_append.raised
    /\ exc = "none" /\ Items(output_doc) = <<>>

\* C16: quit() completes without raising in every session state (never started,
\* started, already quit), performs no stop / close operation on a handle that is
\* absent or already closed, and a second quit() in a row changes nothing.
C16_QuitIdempotent ==
    sess_log.call = "quit" =>
        /\ ~sess_log.raised
        /\ \A i \in 1..Len(sess_log.ops) : sess_log.ops[i].on = "live"
        /\ sess = quit(sess_log.before)
        /\ quit(sess) = sess

\* Position of the sleep among the operations of the recorded call
SleepAt == CHOOSE i \in 1..Len(sess_log.ops) : sess_log.ops[i].op = "sleep"

\* C17: restart(delay) performs quit(), then the delay sleep, then start(), in that
\* order: every stop / close comes before the one sleep and every operation of
\* start() after it, so that the old page is already closed when start() raises;
\* when restart returns normally the session holds a newly opened live page and
\* the page that was live before has been closed.
C17_RestartQuitSleepStart ==
    sess_log.call = "restart" =>
        /\ Cardinality({i \in 1..Len(sess_log.ops) : sess_log.ops[i].op = "sleep"}) = 1
        /\ SubSeq(sess_log.ops, 1, SleepAt - 1) = QuitOps(sess_log.before)
        /\ \A i \in (SleepAt + 1)..Len(sess_log.ops) :
              sess_log.ops[i].op \in {"playwright.start", "chromium.launch",
                                      "browser.new_page"}
        /\ sess_log.raised =>
              (sess_log.before.page # "none" => sess.page = "closed")
        /\ ~sess_log.raised =>
              /\ sess.page = "live"
              /\ sess_log.ops[Len(sess_log.ops)].op = "browser.new_page"
              /\ sess_log.before.page = "live" =>
                    \E i \in 1..(SleepAt - 1) :
                        sess_log.ops[i] = SessionOp("page.close", "live")

\* C17 witness: a restart of a started session that returned normally
C17_Witness ==
    /\ pc = "api" /\ sess_log.call = "restart" /\ ~sess_log.raised
    /\ sess_log.before.page = "live" /\ sess.page = "live"
    /\ Len(sess_log.ops) = 7

\* C18: the crawl never reads an element handle that was located before a restart
\* after that restart: whenever handles are read they were located in the session
\* the crawl is in, and the urls a for-loop works on were read from handles of
\* that same session - across a restart the loop carries url strings only.
C18_NoHandleAcrossRestart ==
    /\ handles.used = handles.located
    /\ handles.located <= SessionGen
    /\ (variant # "poynter" /\ pc \in {"for_url", "extract_data", "save"})
          => handles.located = SessionGen

\* C18 witness: Factcheckorg restarted on entry to page 2 and then read the urls of
\* page 2 from handles located in the second session.
C18_Witness ==
    /\ variant = "factcheckorg" /\ pc = "for_url" /\ curr_page = 2
    /\ restarts = {2} /\ Len(urls) >= 1
    /\ handles = [located |-> 2, used |-> 2]

\* Positions of the cards of the page that hold both a claim and a verdict
CompleteCards ==
    {i \in 1..Len(article_page.cards) :
        article_page.cards[i].claim # Absent /\ article_page.cards[i].verdict # Absent}

\* The position of the n-th complete card in page order
NthComplete(n) ==
    CHOOSE i \in CompleteCards : Cardinality({m \in CompleteCards : m < i}) = n - 1

\* Locating or reading the author elements of the page raises
AuthorsReadFails == \E i \in 1..Len(article_page.authors) : article_page.authors[i] = Absent

\* The fields every record of one page shares
SharesPageFields(record) ==
    /\ record.title = article_page.title
    /\ record.content = article_page.content
    /\ record.publish_date = strip(article_page.publish_date)
    /\ record.url = urls[idx]
    /\ record.authors = IF AuthorsReadFails THEN <<>> ELSE article_page.authors

\* C19: Fullfact, on a page that was reached and whose title and date are there:
\* with k >= 1 claim/verdict pairs the extraction returns exactly k records of type
\* fact-check, one per pair in page order, all with the same title, content,
\* publish_date, url and authors; with no pair it returns exactly one record of
\* type fact-check-no-verdict whose claim is the title and whose verdict is None.
C19_FullfactFanOut ==
    (pc = "extracted" /\ variant = "fullfact" /\ nav.result = "true"
                      /\ ~ExtractorRaises(variant, article_page))
        => /\ \A n \in 1..Len(article_datas) : SharesPageFields(article_datas[n])
           /\ IF CompleteCards # {}
              THEN /\ Len(article_datas) = Cardinality(CompleteCards)
                   /\ \A n \in 1..Len(article_datas) :
                        /\ article_datas[n].type = "fact-check"
                        /\ article_datas[n].claim = article_page.cards[NthComplete(n)].claim
                        /\ article_datas[n].verdict =
                              article_page.cards[NthComplete(n)].verdict
              ELSE /\ Len(article_datas) = 1
                   /\ article_datas[1].type = "fact-check-no-verdict"
                   /\ article_datas[1].claim = article_page.title
                   /\ article_datas[1].verdict = None

\* C19 witness: a Fullfact page whose two cards are complete, the second claim
\* first, gave two fact-check records in that order.
C19_Witness ==
    /\ pc = "extracted" /\ variant = "fullfact" /\ nav.result = "true"
    /\ article_page.cards = <<Card("claim2", "verdict2"), Card("claim1", "verdict1")>>
    /\ Len(article_datas) = 2
    /\ article_datas[1].claim = "claim2" /\ article_datas[2].verdict = "verdict1"
    /\ article_datas[1].authors = <<"A", "B">>

\* A value that is there: neither None nor the mark of a missing element
Present(value) == value # None /\ value # Absent

\* C20: every record appended to the output has claim and verdict both present when
\* its type is fact-check, claim equal to its title and verdict None when its type
\* is fact-check-no-verdict, and claim and verdict both None when its type is
\* elections or news.
C20_ClaimVerdictByType ==
    \A n \in 1..Len(Items(output_doc)) :
        LET record == Items(output_doc)[n]
        IN  /\ record.type \in {"fact-check", "fact-check-no-verdict", "elections", "news"}
            /\ record.type = "fact-check" =>
                  (Present(record.claim) /\ Present(record.verdict))
            /\ record.type = "fact-check-no-verdict" =>
                  (record.claim = record.title /\ record.verdict = None)
            /\ record.type \in {"elections", "news"} =>
                  (record.claim = None /\ record.verdict = None)

\* C20 witness: Politifact saved a fact-check record whose claim is the title of the
\* page and whose verdict is the one of the page.
C20_Witness ==
    /\ pc = "saving" /\ variant = "politifact"
    /\ Len(Items(output_doc)) = 1
    /\ Items(output_doc)[1].type = "fact-check"
    /\ Items(output_doc)[1].claim = "title"
    /\ Items(output_doc)[1].verdict = "verdict"

\* The ISO-8601 date-time strings among the strings a record may hold: a date,
\* "T" and a time, with or without offset
IsIso8601DateTime(s) == s \in {"2024-01-05T10:00:00+08:00", "2024-01-05T00:00:00"}

\* C21: every record appended to the output by any variant has a publish_date that
\* is an ISO-8601 date-time string, also when the page shows the date as a text in
\* a locale format.
C21_PublishDateIso8601 ==
    \A n \in 1..Len(Items(output_doc)) :
        IsIso8601DateTime(Items(output_doc)[n].publish_date)

\* An absolute url: a scheme, "//" and a host
IsAbsolute(url) ==
    /\ Len(url) >= 4
    /\ url[1] \in {"http:", "https:"}
    /\ url[2] = "/" /\ url[3] = "/"
    /\ url[4] # "/"

\* C22: every url handed to extract_data_from_url as an article and every url
\* stored in a record is absolute, whatever the hrefs of the listing were
\* (relative to the root, to the path or to the protocol).
C22_UrlsAbsolute ==
    /\ pc \in {"for_url", "save"} => \A i \in 1..Len(urls) : IsAbsolute(urls[i])
    /\ \A n \in 1..Len(Items(output_doc)) : IsAbsolute(Items(output_doc)[n].url)

\* The anchors of the listing that yield a url, in page order
KeptAnchors ==
    SelectSeq(applied.articles,
              LAMBDA a : Truthy(a) /\ (variant = "rappler_unified" => ~is_fact_check(a.href)))

\* C23: the resolution of hrefs is idempotent: an absolute href is returned
\* unchanged, an href that starts with "/" gives the origin followed by the href,
\* and resolving the urls returned once more returns them unchanged.
C23_ResolutionIdempotent ==
    (applied.op = "extract_urls" /\ exc = "none")
        => /\ Len(urls) = Len(KeptAnchors)
           /\ \A i \in 1..Len(urls) :
                /\ IsAbsolute(KeptAnchors[i].href) => urls[i] = KeptAnchors[i].href
                /\ StartsWithSlash(KeptAnchors[i].href)
                      => urls[i] = Origin(variant) \o KeptAnchors[i].href
           /\ ListingResult(variant, [i \in 1..Len(urls) |-> Anchor(urls[i])]).urls = urls

\* C23 witness: a listing with a root-relative and an absolute href gave the two
\* urls of the origin.
C23_Witness ==
    /\ applied.op = "extract_urls" /\ variant = "fullfact"
    /\ applied.articles = <<Anchor(<<"/", "a">>), Anchor(Origin("fullfact") \o <<"/", "b">>)>>
    /\ urls = <<Origin("fullfact") \o <<"/", "a">>, Origin("fullfact") \o <<"/", "b">>>>
    /\ pc = "for_url"

\* The k-th pattern matches an element: the element is of a kind the k-th locator
\* addresses and its trimmed text starts with the k-th label
StartsWithLabel(k, e) ==
    /\ \/ e.tag = "p"
       \/ k \in {1, 3} /\ e.tag = "li" /\ e.strong
       \/ k = 1 /\ e.tag = "h5"
    /\ strip_tokens(e.text) # <<>>
    /\ strip_tokens(e.text)[1] = ClaimLabels[k]

\* The patterns that match some element of the page
MatchingPatterns ==
    {k \in 1..Len(ClaimLabels) :
        \E i \in 1..Len(applied.elements) : StartsWithLabel(k, applied.elements[i])}

\* C24: extract_claim tries Claim:, The claim:, Ang sabi-sabi:, CLAIM:,
\* ANG SABI-SABI: in that order and returns the text of the first pattern that
\* matches, without that pattern's label and trimmed; when no pattern matches it
\* raises.
C24_ClaimPatternsInOrder ==
    applied.op = "extract_claim"
        => IF MatchingPatterns = {}
           THEN applied.raised
           ELSE LET k == CHOOSE m \in MatchingPatterns :
                            \A other \in MatchingPatterns : m <= other
                IN  /\ ~applied.raised
                    /\ \E i \in 1..Len(applied.elements) :
                         /\ StartsWithLabel(k, applied.elements[i])
                         /\ applied.claim =
                              SubSeq(strip_tokens(applied.elements[i].text), 3,
                                     Len(strip_tokens(applied.elements[i].text)))

\* The title and the date of the page are read without an exception
TitleAndDateRead ==
    /\ article_page.title # Absent
    /\ article_page.publish_date # Absent
    /\ variant \in {"rappler_elections", "rappler_unified"}
          => fromisoformat(article_page.publish_date).valid

\* C25: in the variants that call extract_authors, a failure to locate or read
\* the author elements does not abort the extraction of the url: nothing is
\* written to the retry file on its account, a record is returned and it is
\* persisted with authors = [].
C25_AuthorsFailureNeverAborts ==
    (/\ variant \notin {"politifact", "rappler"}
     /\ pc \in {"extracted", "saving"} /\ nav.result = "true"
     /\ AuthorsReadFails /\ TitleAndDateRead)
        => /\ retry_doc = MissingDoc
           /\ Len(article_datas) + Len(Items(output_doc)) >= 1
           /\ \A n \in 1..Len(article_datas) : article_datas[n].authors = <<>>
           /\ \A n \in 1..Len(Items(output_doc)) : Items(output_doc)[n].authors = <<>>

\* C25 witness: Factcheckorg could not read the second author of a page and saved
\* the record of the page with no author.
C25_Witness ==
    /\ variant = "factcheckorg" /\ pc = "saving"
    /\ article_page.authors = <<"A", Absent>>
    /\ Len(Items(output_doc)) = 1
    /\ Items(output_doc)[1].authors = <<>>
    /\ Items(output_doc)[1].title = "title"
    /\ retry_doc = MissingDoc

\* categorize_article was called and returned a category
Categorized == applied.op = "categorize_article" /\ ~applied.raised

\* The category returned has a keyword score not below that of any category, or
\* it is news and every keyword score is 0
HasHighestKeywordScore ==
    \/ \A c \in DOMAIN applied.pre : ~Less(applied.pre[applied.result], applied.pre[c])
    \/ applied.result = "news" /\ \A c \in DOMAIN applied.pre : applied.pre[c].num = 0

\* The path of the url holds no pattern of url_categories and none of its parts is
\* a government entity
UrlEarnsNoBoost ==
    LET url_path == url_path_of(applied.url)
    IN  /\ \A k \in 1..Len(UrlCategoryKeys) :
              \A pattern \in url_categories(UrlCategoryKeys[k]) :
                  ~PatternIn(pattern, url_path)
        /\ \A i \in 1..Len(CATEGORY_KEYWORDS.government_entities) :
              \A j \in 1..Len(url_path) :
                  url_path[j] # CATEGORY_KEYWORDS.government_entities[i]

\* C26 as stated: for every title, content, url and keyword configuration the
\* category returned has a keyword score (before the boosts) >= that of every
\* other category, or it is news when all scores are 0.
C26_ResultHasHighestPreBoostScore == Categorized => HasHighestKeywordScore

\* C26 amended: the same for every url that earns no boost.
C26_HighestPreBoostScoreWithoutBoost ==
    (Categorized /\ UrlEarnsNoBoost) => HasHighestKeywordScore

\* C26 witness: with a url that earns no boost, social_issues was returned with
\* the highest keyword score, above one that is not 0.
C26_Witness ==
    /\ Categorized /\ UrlEarnsNoBoost
    /\ applied.result = "social_issues"
    /\ applied.pre["news"].num > 0
    /\ Less(applied.pre["news"], applied.pre["social_issues"])

\* The path substrings that earn a category its boost
BoostPatterns(category) ==
    CASE category = "politics" -> url_categories("politics")
      [] category = "social_issues" ->
            { <<"/", "nation", "/">>, <<"/", "metro-manila", "/">>,
              <<"/", "regions", "/">> }
      [] category = "government" -> url_categories("government")

\* C27: whenever the path of the url contains one of the path substrings of
\* politics, social_issues or government, the score of that category is raised by
\* the 0.3 of the url boost; in particular /nation/, /metro-manila/ and /regions/
\* raise the score of social_issues by 0.3.
C27_UrlBoostOfEachCategory ==
    Categorized
        => \A category \in {"politics", "social_issues", "government"} :
              (\E pattern \in BoostPatterns(category) :
                   PatternIn(pattern, url_path_of(applied.url)))
                 => ~Less(applied.scores[category],
                          AddTenths(applied.pre[category], UrlBoostTenths))

\* The categories whose score after the boosts is the highest
HighestFinal ==
    {c \in DOMAIN applied.scores :
        \A d \in DOMAIN applied.scores : ~Less(applied.scores[c], applied.scores[d])}

\* The position of a category in the order politics, social_issues, news, government
OrderOf(category) ==
    CASE category = "politics" -> 1
      [] category = "social_issues" -> 2
      [] category = "news" -> 3
      [] category = "government" -> 4

\* C28: categorize returns the category with the highest score after the boosts;
\* of several categories with the highest score it returns the first in the order
\* politics, social_issues, news, government; when every score is 0 it returns news.
C28_HighestFinalScoreFirstInOrder ==
    Categorized
        => IF \A c \in DOMAIN applied.scores : applied.scores[c].num = 0
           THEN applied.result = "news"
           ELSE /\ applied.result \in HighestFinal
                /\ \A c \in HighestFinal : OrderOf(applied.result) <= OrderOf(c)

\* C28 witness: social_issues and government shared the highest score, which was
\* not 0, and social_issues was returned.
C28_Witness ==
    /\ Categorized
    /\ applied.result = "social_issues"
    /\ HighestFinal = {"social_issues", "government"}
    /\ applied.scores["government"].num > 0

\* C29: categorize_article raises when the keyword set was not initialized (the
\* scraper was constructed without enable_categorizer) and otherwise returns one of
\* politics, social_issues, news, government, whatever the input.
C29_RaisesUnlessEnabled ==
    applied.op = "categorize_article"
        => IF CATEGORY_KEYWORDS.set
           THEN /\ ~applied.raised
                /\ applied.result \in {"politics", "social_issues", "news", "government"}
           ELSE applied.raised

\* C29 witness: a scraper constructed without the categorizer was asked for the
\* category of an article and the call raised.
C29_Witness ==
    /\ applied.op = "categorize_article"
    /\ CATEGORY_KEYWORDS = NoCategoryKeywords
    /\ applied.raised
    /\ pc = "categorized"

\* The keyword list of a category of scores
KeywordsOf(category) ==
    CASE category = "politics" -> CATEGORY_KEYWORDS.politics
      [] category = "social_issues" -> CATEGORY_KEYWORDS.social_issues
      [] category = "news" -> CATEGORY_KEYWORDS.news
      [] category = "government" -> CATEGORY_KEYWORDS.government_entities

\* Every score is >= 0, before and after the boosts, and the keyword score of a
\* category with an empty list is 0
ScoresNonNegative ==
    Categorized
        => /\ \A c \in DOMAIN applied.pre : applied.pre[c].num >= 0
           /\ \A c \in DOMAIN applied.scores : applied.scores[c].num >= 0
           /\ \A c \in DOMAIN applied.pre :
                 KeywordsOf(c) = <<>> => applied.pre[c].num = 0

\* A second call with the same arguments ended as the first one did
SameAsPrevious ==
    pc = "categorized_again"
        => /\ applied.previous.raised = applied.raised
           /\ applied.previous.result = applied.result

DifferentSources == writers[1].variant # writers[2].variant

\* The entries process w was told are saved are the entries of its file, in the
\* order of its appends (while it is rewriting the file itself, nothing is said)
KeepsReported(w) ==
    writers[w].step # "opened" => Items(files[FileOf(writers[w])]) = writers[w].reported

\* C31: no two variants have the same output file or the same retry file, so
\* when crawlers of different sources append concurrently, in any interleaving of
\* their file operations, neither loses or overwrites an entry of the other.
C31_DifferentSourcesDisjointFiles ==
    /\ \A v1 \in Variants, v2 \in Variants :
          v1 # v2 => {output_file(v1), retry_file(v1)} \cap {output_file(v2), retry_file(v2)} = {}
    /\ DifferentSources => \A w \in Processes : KeepsReported(w)

\* C31 witness: Rappler and RapplerUnified both appended twice to their output
\* files and each file holds the two entries of its crawler.
C31_Witness ==
    /\ writers[1].variant = "rappler" /\ writers[2].variant = "rappler_unified"
    /\ writers[1].store = "output" /\ writers[2].store = "output"
    /\ Len(writers[1].reported) = 2 /\ Len(writers[2].reported) = 2
    /\ Len(Items(files[output_file("rappler")])) = 2
    /\ Items(files[output_file("rappler_unified")]) = writers[2].reported

\* Process w has just been told that an entry is saved
ReportedStep(w) == Len(writers'[w].reported) = Len(writers[w].reported) + 1

\* C32: append is not safe for two writers on one file. The rewrite of a process
\* puts into the document what that process read before, followed by its entry,
\* and not what the document holds at that moment; so two processes of one variant
\* whose read and rewrite steps interleave reach a state in which an entry
\* reported as saved is not in the document (the witness).
C32_RewriteFromOwnRead ==
    [][\A w \in Processes :
          ReportedStep(w)
             => LET doc == files'[FileOf(writers[w])]
                IN  \/ doc = CorruptDoc
                    \/ Items(doc) = Append(writers[w].existing_data,
                                           writers'[w].reported[Len(writers'[w].reported)])]_vars

\* C32 witness: two processes of RapplerElections appended to the output file,
\* both are between appends, the document decodes, and an entry the first one was
\* told is saved is not in it.
C32_Witness ==
    /\ writers[1].variant = "rappler_elections" /\ writers[2].variant = "rappler_elections"
    /\ writers[1].store = "output" /\ writers[2].store = "output"
    /\ writers[1].step = "idle" /\ writers[2].step = "idle"
    /\ files[output_file("rappler_elections")].kind = "list"
    /\ \E i \in 1..Len(writers[1].reported) :
          \A n \in 1..Len(Items(files[output_file("rappler_elections")])) :
              Items(files[output_file("rappler_elections")])[n] # writers[1].reported[i]

\* The position the claimed order title, publish date, content, authors, then
\* claim and verdict gives an extractor
ClaimedRank(extractor) ==
    CASE extractor = "title" -> 1
      [] extractor = "publish_date" -> 2
      [] extractor = "content" -> 3
      [] extractor = "authors" -> 4
      [] extractor = "claim" -> 5
      [] extractor = "claims_and_verdicts" -> 5
      [] extractor = "verdict" -> 6

\* The extractors that ran stopped at the first one that raised, and the
\* exception is what sent the URL to the retry log
StopsAtFirstFailure ==
    LET ran == applied.ran IN
    /\ \A i \in 1..(Len(ran) - 1) : ~ExtractorFails(ran[i], variant, article_page)
    /\ ran # <<>>
    /\ \/ ExtractorFails(ran[Len(ran)], variant, article_page)
       \/ Len(ran) = Len(ExtractorOrder(variant))
    /\ ExtractorFails(ran[Len(ran)], variant, article_page)
         <=> ExtractorRaises(variant, article_page)
    /\ ExtractorFails(ran[Len(ran)], variant, article_page)
         <=> (article_datas = <<>> /\ pc = "extracted")

ExtractedPage ==
    /\ pc \in {"extracted", "saving", "done"}
    /\ applied.op = "extract_data_from_url"
    /\ applied.navigated

\* C33 (as stated): in every variant the extractors run in the order title,
\* publish date, content, authors, then claim and verdict where the variant has
\* them, and the first one that fails prevents all later ones.
C33_ExtractorsInClaimedOrder ==
    ExtractedPage =>
        /\ \A i, j \in 1..Len(applied.ran) :
             i < j => ClaimedRank(applied.ran[i]) < ClaimedRank(applied.ran[j])
        /\ pc = "extracted" => StopsAtFirstFailure

\* The order each variant keeps: title and publish date first everywhere, then
\* claim, verdict, content in Rappler, verdict, content in Politifact, and
\* content, authors elsewhere, followed by the claim and verdict cards in Fullfact
VariantOrder ==
    CASE variant = "rappler" -> <<"title", "publish_date", "claim", "verdict", "content">>
      [] variant = "politifact" -> <<"title", "publish_date", "verdict", "content">>
      [] variant = "fullfact" ->
            <<"title", "publish_date", "content", "authors", "claims_and_verdicts">>
      [] OTHER -> <<"title", "publish_date", "content", "authors">>

\* C33 (amended): in every variant the extractors run in a fixed order that
\* starts with title and publish date; Rappler then reads claim, verdict and
\* content, Politifact verdict and content, the other variants content and
\* authors (Fullfact then its claim and verdict cards); the first extractor that
\* fails prevents all later ones.
C33_ExtractorsInVariantOrder ==
    ExtractedPage =>
        /\ Len(applied.ran) <= Len(VariantOrder)
        /\ applied.ran = SubSeq(VariantOrder, 1, Len(applied.ran))
        /\ pc = "extracted" => StopsAtFirstFailure

\* Rappler stopped at a missing verdict, before content was read
C33_Witness ==
    /\ ExtractedPage
    /\ variant = "rappler"
    /\ applied.ran = <<"title", "publish_date", "claim", "verdict">>
    /\ article_page.verdict = Absent
    /\ article_datas = <<>>

\* A step that ends the processing of listing page curr_page (Poynter: of the
\* URL at position idx)
CursorUnitDone ==
    IF variant = "poynter"
    THEN pc \in {"extract_data", "save"} /\ idx' = idx + 1
    ELSE pc = "for_url" /\ pc' = "loop"

\* C34: the cursor starts at the configured start, goes up by exactly 1 when a
\* listing page (Poynter: a URL) has been processed, with or without failed
\* articles, never goes down, and a listing page about to be navigated lies
\* beyond every listing page navigated before.
C34_CursorAdvancesByOne ==
    /\ [](/\ pc \in {"loop", "restart", "nav_listing", "extract_listing", "for_url",
                     "extract_data", "save"} => curr_page >= start_page
          /\ pc = "nav_listing" => page_acc.page < curr_page
          /\ (variant = "poynter" /\ pc \in {"loop", "restart", "extract_data", "save"})
                => curr_page = start_page + idx - 1)
    /\ [][/\ curr_page' >= curr_page
          /\ (pc \in {"init", "read_csv"} /\ pc' = "loop") => curr_page' = start_page
          /\ CursorUnitDone => curr_page' = curr_page + 1
          /\ (curr_page' # curr_page /\ pc \notin {"init", "read_csv"})
                => CursorUnitDone /\ curr_page' = curr_page + 1]_vars

\* C34 witness: Fullfact is about to navigate to its second listing page after a
\* first page on which one article failed and one was saved.
C34_Witness ==
    /\ variant = "fullfact"
    /\ pc = "nav_listing"
    /\ curr_page = start_page + 1
    /\ page_acc.page = start_page
    /\ page_acc.failed # {}
    /\ page_acc.saved # {}

\* C35: RapplerUnified navigates the listing pages from its start page to its end
\* page in increasing order and none beyond the end page, and then ends normally
\* with quit(), whatever the listings hold; with a start page beyond the end page
\* it navigates no listing. (A session or locator failure is not the listing's
\* doing and is left out.)
C35_CrawlsStartToEnd ==
    variant = "rappler_unified" =>
        /\ pc \in {"nav_listing", "extract_listing", "for_url", "extract_data", "save"}
              => (start_page <= curr_page /\ curr_page <= RapplerUnifiedEndPage)
        /\ (pc = "nav_listing" /\ page_acc.page # 0) => curr_page = page_acc.page + 1
        /\ (pc = "done" /\ exc \notin {"SessionError", "LocatorError"})
              => /\ exc = "none"
                 /\ curr_page > RapplerUnifiedEndPage
                 /\ quit_calls >= 1
                 /\ (start_page > RapplerUnifiedEndPage
                        => curr_page = start_page /\ page_acc = NoAcc)

\* The anchors of the listing that have an href, in page order
AnchorsWithHref ==
    SelectSeq(applied.articles, LAMBDA a : a.has_href)

\* C36: in every variant a listing anchor without href is skipped: the result is
\* the one of the listing without that anchor, and nothing is raised.
C36_AnchorWithoutHrefSkipped ==
    (applied.op = "extract_urls" /\ Len(AnchorsWithHref) < Len(applied.articles))
        => /\ exc = "none"
           /\ pc # "done"
           /\ ~ListingResult(variant, AnchorsWithHref).raised
           /\ urls = ListingResult(variant, AnchorsWithHref).urls

\* C37: every url of a listing is handed to extract_data_from_url once per
\* appearance and gets at most max_retries (3) navigation attempts; a url that
\* went to the retry log is not navigated again: the crawl moves on to the next
\* position of the same, unchanged url list.
C37_EachUrlHandedOnce ==
    /\ [](/\ pc \in {"extract_data", "save"} => idx \in 1..Len(urls)
          /\ pc = "extract_data" => idx \notin page_acc.failed \cup page_acc.saved
          /\ nav.kind = "article"
                => (nav.attempts <= DefaultMaxRetries /\ nav.max_retries = DefaultMaxRetries))
    /\ [][/\ (pc = "extract_data" /\ pc' # "finally")
                => /\ nav'.kind = "article"
                   /\ urls' = urls
                   /\ nav'.result = "false"
                         => (nav'.attempts = DefaultMaxRetries /\ article_datas' = <<>>)
                   /\ IF article_datas' = <<>>
                      THEN idx' = idx + 1 /\ pc' # "extract_data"
                      ELSE idx' = idx /\ pc' = "save"
          /\ pc = "save"
                => /\ urls' = urls
                   /\ nav'.kind = "none"
                   /\ IF article_datas' = <<>> THEN idx' = idx + 1 ELSE idx' = idx
          /\ (pc \in {"loop", "restart", "for_url"} /\ pc' \notin {"finally"})
                => (idx' = idx /\ urls' = urls)
          /\ retry_doc' # retry_doc => pc = "extract_data"]_vars

\* C37 witness: the first url of a listing failed its three navigation attempts
\* and went to the retry log; the crawl is at the second url.
C37_Witness ==
    /\ pc = "for_url"
    /\ nav.kind = "article" /\ nav.result = "false" /\ nav.attempts = DefaultMaxRetries
    /\ idx = 2 /\ Len(urls) = 2
    /\ 1 \in page_acc.retried
    /\ Len(Items(retry_doc)) = 1

\* C38: the records of an article url are appended to the output store, in pair
\* order and at the end of the document, before the crawl turns to the next url:
\* no record is pending when a url or a listing is navigated to, and the store
\* changes only while the records of the current url are saved, so the stored
\* records follow the crawl order.
C38_RecordsSavedBeforeNextUrl ==
    /\ [](pc \in {"loop", "restart", "nav_listing", "extract_listing", "for_url",
                  "extract_data"} => article_datas = <<>>)
    /\ [][/\ output_doc' # output_doc => pc = "save"
          /\ pc = "save"
                => /\ article_datas # <<>>
                   /\ Head(article_datas).url = urls[idx]
                   /\ article_datas' = Tail(article_datas)
                   /\ last_append'.store = "output"
                   /\ IF last_append'.saved
                      THEN Items(output_doc') = Append(Items(output_doc), Head(article_datas))
                      ELSE output_doc' = output_doc \/ output_doc'.kind = "corrupt"
                   /\ pc' = "save" <=> article_datas' # <<>>
          /\ (pc = "extract_data" /\ pc' = "save")
                => \A n \in 1..Len(article_datas') : article_datas'[n].url = urls[idx]]_vars

\* C38 witness: Fullfact stored the two records of its first url, in pair order,
\* and is about to take the second url of the listing.
C38_Witness ==
    /\ variant = "fullfact"
    /\ pc = "for_url" /\ idx = 2 /\ Len(urls) = 2
    /\ Len(Items(output_doc)) = 2
    /\ Items(output_doc)[1].url = urls[1] /\ Items(output_doc)[2].url = urls[1]
    /\ Items(output_doc)[1].claim # Items(output_doc)[2].claim
    /\ article_datas = <<>>

\* Whether operation number i of a session call ran to its end (the last
\* operation of a call that raised did not)
OpCompleted(log, i) == ~(log.raised /\ i = Len(log.ops))

\* Browser engines live once the first i operations of the call are over
EnginesAfter(log, i) ==
    (IF log.before.pw = "live" THEN 1 ELSE 0)
    + Cardinality({j \in 1..i : log.ops[j].op = "playwright.start" /\ OpCompleted(log, j)})
    - Cardinality({j \in 1..i : log.ops[j].op = "pw.stop" /\ log.ops[j].on = "live"})

\* Pages live once the first i operations of the call are over
PagesAfter(log, i) ==
    (IF log.before.page = "live" THEN 1 ELSE 0)
    + Cardinality({j \in 1..i : log.ops[j].op = "browser.new_page" /\ OpCompleted(log, j)})
    - Cardinality({j \in 1..i : log.ops[j].op = "page.close" /\ log.ops[j].on = "live"})

\* C39: at most one engine and one page are live at any point of a crawl, and
\* start() begins only when no engine and no page of an earlier session is
\* live, also in a restart whose start raises part-way.
C39_AtMostOneLiveSession ==
    /\ \A i \in 0..Len(sess_log.ops) :
         /\ EnginesAfter(sess_log, i) \in {0, 1}
         /\ PagesAfter(sess_log, i) \in {0, 1}
         /\ (i > 0 /\ sess_log.ops[i].op = "playwright.start")
               => (EnginesAfter(sess_log, i - 1) = 0 /\ PagesAfter(sess_log, i - 1) = 0)
    /\ EnginesAfter(sess_log, Len(sess_log.ops)) = (IF sess.pw = "live" THEN 1 ELSE 0)
    /\ PagesAfter(sess_log, Len(sess_log.ops)) = (IF sess.page = "live" THEN 1 ELSE 0)
    /\ sess_log.call = "start" => sess_log.before = NoSession

\* C39 witness: a restart of a live session whose chromium.launch raised: the old
\* engine and page were closed before the new engine started.
C39_Witness ==
    /\ sess_log.call = "restart" /\ sess_log.raised
    /\ sess_log.before.pw = "live" /\ sess_log.before.page = "live"
    /\ Len(sess_log.ops) = 6
    /\ sess.pw = "live" /\ sess.page = "closed"
    /\ pc = "finally"

\* C40: a store whose document is valid JSON but not a list keeps that document
\* unchanged: every append to it drops its entry, opens nothing for writing and
\* ends without raising and without its "Saved" print.
C40_NonListDocumentKept ==
    /\ \A store \in {"output", "retry"} :
         store_hist[store].first = "nonlist"
            => /\ (IF store = "output" THEN output_doc ELSE retry_doc) = NonListDoc
               /\ last_append.store = store
                     => /\ ~last_append.raised
                        /\ ~last_append.saved
                        /\ last_append.failure # "none"
                        /\ last_append.writes = 0
    /\ [][\A store \in {"output", "retry"} :
            (/\ (IF store = "output" THEN output_doc ELSE retry_doc).kind = "nonlist"
             /\ store_hist'[store] # store_hist[store])
               => /\ output_doc' = output_doc /\ retry_doc' = retry_doc
                  /\ last_append'.failure \in {"AttributeError", "OSError"}]_vars

\* C40 witness: two entries were handed to an output store whose document is a
\* JSON object, the last one with no failing file operation; the document is as
\* it was.
C40_Witness ==
    /\ store_hist["output"].first = "nonlist"
    /\ Len(store_hist["output"].entries) = 2
    /\ last_append.store = "output"
    /\ last_append.failure = "AttributeError"
    /\ output_doc = NonListDoc

====
